---- MODULE Spec2Model ----
\* Visual Product Matcher: the ranked similarity search of ProductService
\* (src/server/productService.js), the image fetch and feature extraction of
\* ImageProcessor (src/server/imageProcessor.js and the later revision of the
\* same class kept in src/unnamed/part_000) and the two search endpoints of
\* src/server/server.js.
\*
\* Numbers.  A cosine score is the real number num / sqrt(den2); it is kept as
\* the pair [num, den2] and compared exactly (squares on both sides), so the
\* model follows real arithmetic and leaves IEEE-754 rounding error aside.
\* minSimilarity is in thousandths (992 is 0.992); the `similarity` field of a
\* result is in hundredths (99 is 0.99), as Math.round(x * 100) / 100 makes
\* it; matchPercentage is the integer Math.round(x * 100).
EXTENDS Integers, Sequences, FiniteSets, TLC

VARIABLES
    redisProducts,   \* value under the key "products:all": a sequence of
                     \* products, <<>> also when the key is absent
    redisFeatures,   \* value under "features:<id>" for every id: a vector or Null
    pc,              \* position of the running findSimilarProducts call
    products,        \* its local `products`
    idx,             \* index of the product the for-of loop reaches next
    similarities,    \* its local `similarities`
    queryFeatures,   \* its argument queryFeatures
    minSimilarity,   \* its argument minSimilarity, in thousandths
    result,          \* what the call returned or threw
    log,             \* per processed product: what the call did for it
    faultsLeft,      \* transient failures the environment may still inject
    caller,          \* who called findSimilarProducts: an endpoint or "direct"
    request,         \* the search request in progress and how its steps went
    response,        \* the response sent for it
    findCalls,       \* findSimilarProducts calls made for it
    imageProcessor,  \* server.js: let imageProcessor
    productService,  \* server.js: let productService
    revision,        \* the ImageProcessor revision called directly
    calls,           \* its last extractFeaturesFromUrl calls, newest last
    invoked,         \* the last direct call of another ImageProcessor method
    liveTensors,     \* tensors the direct extractFeatures calls left undisposed
    modelLoads,      \* executions of tf.loadLayersModel in this process
    searchProcessor, \* productService.imageProcessor, the ProductService's own
    previous,        \* the findSimilarProducts call before the current one
    seeding,         \* the seeding script: its position and locals
    searches,        \* findSimilarProducts calls running side by side: per
                     \* call its position, locals and result
    cacheAtStart,    \* the features:<id> entries before those calls began
    instance,        \* an ImageProcessor through its life: model, isInitialized
    handlers,        \* requests inside initializeServices: position of each
    connectionTested,\* a productService.testConnection call has succeeded
    catalogCalls,    \* ProductService calls on the catalog running side by
                     \* side: per call its method, position and locals
    nextId,          \* the next id addProduct's timestamp and random give
    isSearching,     \* script.js: this.isSearching
    currentResults,  \* script.js: this.currentResults
    previewSrc,      \* script.js: the src of #preview-image
    shown,           \* script.js: what the results section and the toast show
    inflight,        \* script.js: the API calls awaited, each with its caller
    clearedSince     \* clearImage ran and no search or browse was started since

searchVars == <<redisProducts, redisFeatures, pc, products, idx, similarities,
                queryFeatures, minSimilarity, result, log, faultsLeft>>

serverVars == <<caller, request, response, findCalls, imageProcessor, productService>>

fetchVars == <<revision, calls>>

processorVars == <<invoked, liveTensors>>

loadVars == <<modelLoads, searchProcessor>>

concurrentVars == <<searches, cacheAtStart>>

lifecycleVars == <<instance>>

initVars == <<handlers, connectionTested>>

catalogVars == <<catalogCalls, nextId>>

frontendVars == <<isSearching, currentResults, previewSrc, shown, inflight,
                  clearedSince>>

asyncVars == <<concurrentVars, lifecycleVars, initVars, catalogVars, frontendVars>>

vars == <<searchVars, serverVars, fetchVars, processorVars, loadVars, previous, seeding,
          asyncVars>>

\* null where a feature vector is expected; no feature vector has length 0.
Null == <<>>

\* ---------------------------------------------------------------- bounds

\* Transient failures (store read, fetch or extraction, store write) per run.
MaxFaults == 1

\* Length of the freely chosen tail of a catalog.
MaxTail == 2

\* Largest component of the vectors cosineSimilarity is called on directly,
\* and the largest factor one of them is scaled by.
MaxComponent == 2
MaxScale == 2

\* Tensors the direct extractFeatures calls may leave undisposed in all.
MaxLiveTensors == 3

\* Side of the square that extractColorHistogram resizes an image to; the
\* code resizes to 100 x 100.
ResizeSide == 2

\* ------------------------------------------------------ program constants

\* similarities.slice(0, 20)
TopK == 20

\* The sample catalog holds prod_1 .. prod_50.
SampleCount == 50

\* new Array(256).fill(0)
Buckets == 256

\* ------------------------------------------------------------ the images

\* What a product's imageUrl leads to.  "X" is a URL whose host does not
\* resolve; the others are JPEG images, each with the feature vector the
\* backbone computes from it (extraction is a pure function of the image).
GoodImages == {"A", "B", "C", "D"}
Images == GoodImages \cup {"X"}

FeatureOf(img) ==
    CASE img = "A" -> <<1, 1>>
      [] img = "B" -> <<4, 3>>
      [] img = "C" -> <<5, 4>>
      [] img = "D" -> <<1, 0>>

\* A vector of another length, as an entry written by another model would be.
ForeignVector == <<1, 1, 1>>

\* --------------------------------------------------- ImageProcessor: cosine

RECURSIVE SumProducts(_, _, _)
SumProducts(a, b, i) ==
    IF i > Len(a) THEN 0 ELSE a[i] * b[i] + SumProducts(a, b, i + 1)

Throws == [threw |-> TRUE]

\* The i-th component, 0 past the end.
At(v, i) == IF i <= Len(v) THEN v[i] ELSE 0

RECURSIVE SumPadded(_, _, _)
SumPadded(a, b, i) ==
    IF i > Len(a) /\ i > Len(b) THEN 0
    ELSE At(a, i) * At(b, i) + SumPadded(a, b, i + 1)

\* A cosineSimilarity that reads the missing components of the shorter vector
\* as 0 instead of throwing.
CosineSimilarityPadded(vectorA, vectorB) ==
    LET dotProduct == SumPadded(vectorA, vectorB, 1)
        normA == SumPadded(vectorA, vectorA, 1)
        normB == SumPadded(vectorB, vectorB, 1)
    IN  IF normA = 0 \/ normB = 0
        THEN [threw |-> FALSE, num |-> 0, den2 |-> 1]
        ELSE [threw |-> FALSE, num |-> dotProduct, den2 |-> normA * normB]

\* A cosineSimilarity without the zero-norm return: 0 / 0 on a zero vector.
CosineSimilarityUnguarded(vectorA, vectorB) ==
    IF Len(vectorA) # Len(vectorB) THEN Throws
    ELSE [threw |-> FALSE, num |-> SumProducts(vectorA, vectorB, 1),
          den2 |-> SumProducts(vectorA, vectorA, 1) * SumProducts(vectorB, vectorB, 1)]

\* A cosineSimilarity that divides by normA twice instead of normA * normB.
CosineSimilarityOneNorm(vectorA, vectorB) ==
    IF Len(vectorA) # Len(vectorB) THEN Throws
    ELSE LET dotProduct == SumProducts(vectorA, vectorB, 1)
             normA == SumProducts(vectorA, vectorA, 1)
             normB == SumProducts(vectorB, vectorB, 1)
         IN  IF normA = 0 \/ normB = 0
             THEN [threw |-> FALSE, num |-> 0, den2 |-> 1]
             ELSE [threw |-> FALSE, num |-> dotProduct, den2 |-> normA * normA]

\* cosineSimilarity(vectorA, vectorB): throws on unequal lengths, 0 on a zero
\* norm, else dot / (sqrt(normA) * sqrt(normB)).
CosineSimilarity(vectorA, vectorB) ==
    IF Len(vectorA) # Len(vectorB) THEN Throws
    ELSE LET dotProduct == SumProducts(vectorA, vectorB, 1)
             normA == SumProducts(vectorA, vectorA, 1)
             normB == SumProducts(vectorB, vectorB, 1)
         IN  IF normA = 0 \/ normB = 0
             THEN [threw |-> FALSE, num |-> 0, den2 |-> 1]
             ELSE [threw |-> FALSE, num |-> dotProduct, den2 |-> normA * normB]

\* k - 1/2 <= 100 * similarity, for a score num / sqrt(den2) >= 0.
RoundsUpTo(s, k) ==
    k = 0 \/ (2 * k - 1) * (2 * k - 1) * s.den2 <= 40000 * s.num * s.num

\* The largest k in lo..hi with RoundsUpTo(s, k), by bisection; lo has it.
RECURSIVE LargestRounding(_, _, _)
LargestRounding(s, lo, hi) ==
    IF lo = hi THEN lo
    ELSE LET mid == (lo + hi + 1) \div 2
         IN  IF RoundsUpTo(s, mid) THEN LargestRounding(s, mid, hi)
             ELSE LargestRounding(s, lo, mid - 1)

\* Math.round(similarity * 100): the largest integer k with
\* k - 1/2 <= 100 * similarity (halves round up).
RoundPercent(s) == LargestRounding(s, 0, 100)

\* similarity >= minSimilarity, minSimilarity in thousandths.
AtLeast(s, min) ==
    1000000 * s.num * s.num >= min * min * s.den2

\* The order of two raw scores: s > t.
RawGreater(s, t) ==
    s.num * s.num * t.den2 > t.num * t.num * s.den2

\* ------------------------------------- ImageProcessor: fetch and extraction

\* The two revisions of the class: "server" is src/server/imageProcessor.js,
\* the one server.js and productService.js load; "revised" is the class in
\* src/unnamed/part_000.
Impls == {"server", "revised"}

\* What axios.get(imageUrl) ends in.
NetOutcomes == {"ok", "ENOTFOUND", "ECONNREFUSED", "HTTP404", "HTTP403",
                "ECONNABORTED", "HTTP500"}

\* What sharp(imageBuffer).metadata() finds in the downloaded bytes; "corrupt"
\* bytes make it throw.
Formats == {"jpeg", "png", "webp", "gif", "tiff", "heif", "corrupt"}

\* The error axios throws: code, response.status (0: no response), message.
AxiosError(impl, net) ==
    CASE net = "ENOTFOUND" ->
           [code |-> "ENOTFOUND", status |-> 0, message |-> "getaddrinfo ENOTFOUND"]
      [] net = "ECONNREFUSED" ->
           [code |-> "ECONNREFUSED", status |-> 0, message |-> "connect ECONNREFUSED"]
      [] net = "HTTP404" ->
           [code |-> "ERR_BAD_REQUEST", status |-> 404,
            message |-> "Request failed with status code 404"]
      [] net = "HTTP403" ->
           [code |-> "ERR_BAD_REQUEST", status |-> 403,
            message |-> "Request failed with status code 403"]
      [] net = "HTTP500" ->
           [code |-> "ERR_BAD_RESPONSE", status |-> 500,
            message |-> "Request failed with status code 500"]
      [] net = "ECONNABORTED" ->
           [code |-> "ECONNABORTED", status |-> 0,
            message |-> IF impl = "server" THEN "timeout of 10000ms exceeded"
                        ELSE "timeout of 15000ms exceeded"]

\* new Error(message): no code, no response.
PlainError(message) == [code |-> "", status |-> 0, message |-> message]

\* message.includes("timeout")
IncludesTimeout(message) ==
    message \in {"timeout of 10000ms exceeded", "timeout of 15000ms exceeded"}

UnsupportedServer == "Unsupported image format. Please use JPEG, PNG, or WebP."
UnsupportedRevised ==
    "Unsupported image format. Please use JPEG, PNG, WebP, GIF, or TIFF."

\* message.includes("Unsupported image format")
IncludesUnsupported(message) == message \in {UnsupportedServer, UnsupportedRevised}

\* A validation that lets every decodable format through.
AllowedFormatsAny(impl) == Formats \ {"corrupt"}

\* The formats the validation lets through.
AllowedFormats(impl) ==
    IF impl = "server" THEN {"jpeg", "png", "webp"}
    ELSE {"jpeg", "png", "webp", "gif", "tiff"}

\* The try block of extractFeaturesFromUrl up to the call of extractFeatures:
\* [passed |-> TRUE] when the bytes go on to extractFeatures, else the error
\* thrown inside the try block.
ValidateDownload(impl, net, format) ==
    IF net # "ok" THEN [passed |-> FALSE, error |-> AxiosError(impl, net)]
    ELSE IF impl = "server"
         THEN IF format = "corrupt"
              THEN [passed |-> FALSE,
                    error |-> PlainError("Input buffer contains unsupported image format")]
              ELSE IF format \notin AllowedFormats(impl)
                   THEN [passed |-> FALSE, error |-> PlainError(UnsupportedServer)]
                   ELSE [passed |-> TRUE]
         ELSE \* the inner try/catch turns whatever the validation throws,
              \* the unsupported-format error included, into one error
              IF format = "corrupt" \/ format \notin AllowedFormats(impl)
              THEN [passed |-> FALSE,
                    error |-> PlainError("Invalid or corrupted image file")]
              ELSE [passed |-> TRUE]

\* The catch block of extractFeaturesFromUrl: the message of the error it
\* throws, as the sequence of the strings concatenated into it.
RethrowMessage(impl, error) ==
    IF impl = "server"
    THEN IF error.code = "ENOTFOUND" \/ error.code = "ECONNREFUSED"
         THEN <<"Unable to access the image URL. Please check the URL and try again.">>
         ELSE IF error.status = 404
              THEN <<"Image not found at the provided URL.">>
              ELSE IF IncludesTimeout(error.message)
                   THEN <<"Request timeout. Please try with a different image URL.">>
                   ELSE <<error.message>>
    ELSE IF error.code = "ENOTFOUND"
         THEN <<"Unable to resolve the image URL. Please check the URL.">>
         ELSE IF error.code = "ECONNREFUSED"
         THEN <<"Connection refused. The server may be down.">>
         ELSE IF error.status = 404
         THEN <<"Image not found at the provided URL (404).">>
         ELSE IF error.status = 403
         THEN <<"Access denied to the image URL (403).">>
         ELSE IF error.code = "ECONNABORTED" \/ IncludesTimeout(error.message)
         THEN <<"Request timeout. Please try with a different image URL.">>
         ELSE IF IncludesUnsupported(error.message)
         THEN <<error.message>>
         ELSE <<"Failed to process image: ", error.message>>

\* How a call of extractFeatures goes: it returns the vector, it fails while
\* preprocessing or predicting, or the lazy initialize() before its try block
\* fails to load the backbone.
ExtractOutcomes == {"ok", "fails", "initFails"}

ModelLoadError == "tf.loadLayersModel failed"

\* extractFeatures(imageBuffer) on bytes whose features are `features`.
ExtractFeatures(features, how) ==
    IF how = "ok" THEN [ok |-> TRUE, features |-> features]
    ELSE IF how = "fails"
         THEN [ok |-> FALSE, error |-> PlainError("Failed to extract image features")]
         ELSE [ok |-> FALSE, error |-> PlainError(ModelLoadError)]

\* extractFeaturesFromUrl(imageUrl): the vector, or the message of the error
\* thrown; extractCalled tells whether the bytes reached extractFeatures.
ExtractFeaturesFromUrl(impl, net, format, features, how) ==
    LET v == ValidateDownload(impl, net, format)
    IN  IF ~v.passed
        THEN [ok |-> FALSE, extractCalled |-> FALSE,
              message |-> RethrowMessage(impl, v.error)]
        ELSE LET e == ExtractFeatures(features, how)
             IN  IF e.ok
                 THEN [ok |-> TRUE, extractCalled |-> TRUE, features |-> e.features]
                 ELSE [ok |-> FALSE, extractCalled |-> TRUE,
                       message |-> RethrowMessage(impl, e.error)]

\* What the fetch of a catalog image ends in: "X" never resolves, a transient
\* failure is a timeout.
NetOf(img, transient) ==
    IF img = "X" THEN "ENOTFOUND" ELSE IF transient THEN "ECONNABORTED" ELSE "ok"

\* ------------------------------------------------ ProductService: the store

Product(id, img) == [id |-> id, imageUrl |-> img]

\* The images of the sample catalog, prod_1 .. prod_50.
SampleImage(i) ==
    CASE i % 4 = 0 -> "A" [] i % 4 = 1 -> "B" [] i % 4 = 2 -> "C" [] OTHER -> "D"

\* The literal list of initializeSampleProducts.
SampleProducts == [i \in 1..SampleCount |-> Product(i, SampleImage(i))]

\* redis.get("features:" + id) as the store holds it.
StoredFeatures(store, id) == IF id \in DOMAIN store THEN store[id] ELSE Null

\* getProductFeatures(productId): a failed read is logged and gives null.
GetProductFeatures(store, id, readOk) ==
    IF readOk THEN StoredFeatures(store, id) ELSE Null

\* A storeProductFeatures that lets the failed write escape.
StoreProductFeaturesThrowing(store, id, features, writeOk) ==
    IF writeOk THEN [threw |-> FALSE,
                     store |-> [i \in DOMAIN store \cup {id} |->
                                   IF i = id THEN features ELSE store[i]]]
    ELSE [threw |-> TRUE, store |-> store]

\* A storeProductFeatures that also deletes the entry of the product before.
StoreProductFeaturesEvicting(store, id, features, writeOk) ==
    IF writeOk THEN [threw |-> FALSE,
                     store |-> [i \in DOMAIN store \cup {id} |->
                                   IF i = id THEN features
                                   ELSE IF i = id - 1 THEN Null ELSE store[i]]]
    ELSE [threw |-> FALSE, store |-> store]

\* A storeProductFeatures that writes the components in reverse order.
StoreProductFeaturesReversed(store, id, features, writeOk) ==
    IF writeOk THEN [threw |-> FALSE,
                     store |-> [i \in DOMAIN store \cup {id} |->
                                   IF i = id
                                   THEN [k \in 1..Len(features) |->
                                            features[Len(features) + 1 - k]]
                                   ELSE store[i]]]
    ELSE [threw |-> FALSE, store |-> store]

\* storeProductFeatures(productId, features): a failed write is logged and
\* caught, and leaves the store as it was.
StoreProductFeatures(store, id, features, writeOk) ==
    IF writeOk THEN [threw |-> FALSE,
                     store |-> [i \in DOMAIN store \cup {id} |->
                                   IF i = id THEN features ELSE store[i]]]
    ELSE [threw |-> FALSE, store |-> store]

\* ----------------------------------------------- ProductService: the search

\* A filter that keeps every scored product.
KeepsAll(score, min) == TRUE

\* if (similarity >= minSimilarity)
Keeps(score, min) == AtLeast(score, min)

\* { ...product, similarity: Math.round(similarity * 100) / 100,
\*   matchPercentage: Math.round(similarity * 100) }
SearchResult(product, score) ==
    LET percent == RoundPercent(score)
    IN  [id |-> product.id, imageUrl |-> product.imageUrl,
         similarity |-> percent, matchPercentage |-> percent]

\* Where a stable descending sort puts x in the sorted sequence s: behind
\* every element that does not compare after it.
InsertBySimilarity(s, x) ==
    LET k == Cardinality({i \in 1..Len(s) : s[i].similarity >= x.similarity})
    IN  SubSeq(s, 1, k) \o <<x>> \o SubSeq(s, k + 1, Len(s))

RECURSIVE SortFrom(_, _, _)
SortFrom(s, i, sorted) ==
    IF i > Len(s) THEN sorted
    ELSE SortFrom(s, i + 1, InsertBySimilarity(sorted, s[i]))

\* A sort that leaves the list as it is.
SortSkipped(s) == s

\* similarities.sort((a, b) => b.similarity - a.similarity): stable.
SortBySimilarity(s) == SortFrom(s, 1, <<>>)

\* slice(0, 21): one entry too many.
TopSliceOneMore(s) == SubSeq(s, 1, IF Len(s) < TopK + 1 THEN Len(s) ELSE TopK + 1)

\* slice(-20): the last entries instead of the first.
TopSliceFromEnd(s) == SubSeq(s, IF Len(s) < TopK THEN 1 ELSE Len(s) - TopK + 1, Len(s))

\* similarities.slice(0, 20)
TopSlice(s) == SubSeq(s, 1, IF Len(s) < TopK THEN Len(s) ELSE TopK)

Returned(list) == [kind |-> "returned", list |-> list]
Threw(message) == [kind |-> "threw", message |-> message]
NoResult == [kind |-> "none"]

\* A miss test that sends every product down the extraction branch.
CacheMissAlways(got) == TRUE

\* if (!productFeatures)
CacheMiss(got) == got = Null

\* What one pass of the loop body does for `product`, given whether the store
\* read, the fetch and extraction, and the store write go through.
\* fetchOk and writeOk are read only when the pass gets that far.
ProcessOne(product, store, query, min, readOk, fetchOk, writeOk) ==
    LET cached == StoredFeatures(store, product.id)
        got == GetProductFeatures(store, product.id, readOk)
        miss == CacheMiss(got)
        ex == ExtractFeaturesFromUrl("server", NetOf(product.imageUrl, ~fetchOk),
                  "jpeg", IF product.imageUrl \in GoodImages
                          THEN FeatureOf(product.imageUrl) ELSE <<>>, "ok")
        st == IF miss /\ ex.ok
              THEN StoreProductFeatures(store, product.id, ex.features, writeOk)
              ELSE [threw |-> FALSE, store |-> store]
        \* the inner try: a throw of either call skips the product
        features == IF miss THEN (IF ex.ok /\ ~st.threw THEN ex.features ELSE Null)
                    ELSE got
        \* the outer try: a throw of cosineSimilarity skips the product
        score == IF features = Null THEN Throws
                 ELSE CosineSimilarity(query, features)
        kept == ~score.threw /\ Keeps(score, min)
    IN  [store |-> st.store,
         push |-> IF kept THEN <<SearchResult(product, score)>> ELSE <<>>,
         entry |-> [id |-> product.id, cached |-> cached, got |-> got,
                    fetched |-> miss, extracted |-> miss /\ ex.extractCalled,
                    extractedFeatures |-> IF miss /\ ex.ok THEN ex.features ELSE Null,
                    wrote |-> miss /\ ex.ok, stored |-> miss /\ ex.ok /\ writeOk,
                    features |-> features, score |-> score, kept |-> kept]]

\* res.json({success: true, data: similarProducts, ...})
SuccessResponse(list) ==
    [status |-> 200, success |-> TRUE, error |-> <<>>, hasData |-> TRUE, data |-> list]

\* res.status(status).json({success: false, error: message})
FailureResponse(status, message) ==
    [status |-> status, success |-> FALSE, error |-> message, hasData |-> FALSE,
     data |-> <<>>]

NoResponse == [status |-> 0, success |-> FALSE, error |-> <<>>, hasData |-> FALSE,
               data |-> <<>>]

\* The prefix the endpoint's catch block puts before error.message.
ErrorPrefix(kind) ==
    IF kind = "upload" THEN "Failed to process image: "
    ELSE "Failed to process image URL: "

\* What the endpoint that awaits findSimilarProducts sends when it returns or
\* throws; a direct call sends nothing.
ResponseAfterSearch(who, res) ==
    IF who \in {"direct", "seed"} THEN NoResponse
    ELSE IF res.kind = "returned" THEN SuccessResponse(res.list)
    ELSE FailureResponse(500, <<ErrorPrefix(who)>> \o res.message)

\* findSimilarProducts up to the loop: getAllProducts, which seeds the sample
\* catalog into an empty store, and the empty-catalog return.
StartSearch ==
    /\ pc = "call"
    /\ \E readOk \in BOOLEAN :
        /\ ~readOk => faultsLeft > 0
        /\ faultsLeft' = IF readOk THEN faultsLeft ELSE faultsLeft - 1
        /\ IF ~readOk
           THEN /\ result' = Threw(<<"Failed to find similar products">>)
                /\ pc' = "done"
                /\ response' = ResponseAfterSearch(caller, result')
                /\ UNCHANGED <<redisProducts, products, idx, asyncVars>>
           ELSE LET seed == redisProducts = <<>>
                    all == IF seed THEN SampleProducts ELSE redisProducts
                IN  /\ redisProducts' = all
                    /\ products' = all
                    /\ idx' = 1
                    /\ pc' = "loop"
                    /\ UNCHANGED <<result, response, asyncVars>>
    /\ similarities' = <<>>
    /\ log' = <<>>
    /\ findCalls' = findCalls + 1
    /\ UNCHANGED <<redisFeatures, queryFeatures, minSimilarity, caller, request,
                   imageProcessor, productService, fetchVars, processorVars,
                   loadVars, previous, seeding, asyncVars>>

\* One pass of `for (const product of products)`.
ProcessProduct ==
    /\ pc = "loop"
    /\ idx <= Len(products)
    /\ \E readOk, fetchOk, writeOk \in BOOLEAN :
        LET product == products[idx]
            faults == (IF readOk THEN 0 ELSE 1) + (IF fetchOk THEN 0 ELSE 1)
                      + (IF writeOk THEN 0 ELSE 1)
            r == ProcessOne(product, redisFeatures, queryFeatures, minSimilarity,
                            readOk, fetchOk, writeOk)
        IN  /\ faults <= faultsLeft
            \* a failure is injected only into a call that is made
            /\ ~fetchOk => r.entry.fetched /\ product.imageUrl # "X"
            /\ ~writeOk => r.entry.wrote
            /\ faultsLeft' = faultsLeft - faults
            /\ redisFeatures' = r.store
            /\ similarities' = similarities \o r.push
            /\ log' = Append(log, r.entry)
            \* extractFeatures of the ProductService's own processor loads
            \* the backbone when that processor has not loaded it
            /\ LET loads == r.entry.extracted /\ ~searchProcessor.isInitialized
               IN  /\ modelLoads' = IF loads THEN modelLoads + 1 ELSE modelLoads
                   /\ searchProcessor' = IF loads THEN [isInitialized |-> TRUE]
                                         ELSE searchProcessor
    /\ idx' = idx + 1
    /\ UNCHANGED <<redisProducts, pc, products, queryFeatures, minSimilarity, result,
                   serverVars, fetchVars, processorVars, previous, seeding,
                   asyncVars>>

\* After the loop: sort, truncate, return.
FinishSearch ==
    /\ pc = "loop"
    /\ idx > Len(products)
    /\ result' = Returned(TopSlice(SortBySimilarity(similarities)))
    /\ pc' = "done"
    /\ response' = ResponseAfterSearch(caller, result')
    /\ UNCHANGED <<redisProducts, redisFeatures, products, idx, similarities,
                   queryFeatures, minSimilarity, log, faultsLeft, caller, request,
                   findCalls, imageProcessor, productService, fetchVars,
                   processorVars, loadVars, previous, seeding, asyncVars>>

\* ----------------------------------------- findSimilarProducts called alone

PadImage == "B"

NoRequest == [kind |-> "none"]
NotCreated == [created |-> FALSE, isInitialized |-> FALSE]

\* No request is being served.
ServerIdle ==
    /\ caller = "direct"
    /\ request = NoRequest
    /\ response = NoResponse
    /\ findCalls = 0
    /\ imageProcessor = NotCreated
    /\ productService = [created |-> FALSE]

\* No direct extractFeaturesFromUrl call has been made.
FetchIdle ==
    /\ revision = "server"
    /\ calls = <<>>

NoCall == [op |-> "none"]
NoPrevious == [kind |-> "none"]
SeedOff == [pc |-> "off"]

\* new ImageProcessor(): this.model = null, this.isInitialized = false.
NewProcessor == [model |-> "null", isInitialized |-> FALSE, warmedUp |-> FALSE]

\* The page as init() leaves it: no preview, the results section hidden and
\* empty, the welcome toast.
NothingShown ==
    [section |-> FALSE, grid |-> <<>>, noResults |-> FALSE, loading |-> FALSE,
     toast |-> "welcome"]

\* No findSimilarProducts calls run side by side.
ConcurrentIdle ==
    /\ searches = <<>>
    /\ cacheAtStart = <<>>

\* No ImageProcessor is followed through its life.
LifecycleIdle == instance = NewProcessor

\* No request is inside initializeServices.
InitIdle ==
    /\ handlers = <<>>
    /\ connectionTested = FALSE

\* No catalog call is open.
CatalogIdle ==
    /\ catalogCalls = <<>>
    /\ nextId = 0

\* No page is open.
FrontendIdle ==
    /\ isSearching = FALSE
    /\ currentResults = <<>>
    /\ previewSrc = ""
    /\ shown = NothingShown
    /\ inflight = <<>>
    /\ clearedSince = FALSE

AsyncIdle ==
    /\ ConcurrentIdle
    /\ LifecycleIdle
    /\ InitIdle
    /\ CatalogIdle
    /\ FrontendIdle

\* A process that has just started: nothing loaded, no tensor allocated, no
\* direct call made, no earlier search, and the seeding script not running.
FreshProcess ==
    /\ invoked = NoCall
    /\ liveTensors = 0
    /\ modelLoads = 0
    /\ searchProcessor = [isInitialized |-> FALSE]
    /\ previous = NoPrevious
    /\ seeding = SeedOff
    /\ AsyncIdle

RECURSIVE Tails(_)
Tails(n) ==
    IF n = 0 THEN {<<>>}
    ELSE Tails(n - 1) \cup
         {Append(t, img) : t \in {u \in Tails(n - 1) : Len(u) = n - 1}, img \in Images}

\* A catalog: `pad` products showing PadImage, then the tail.
Catalog(pad, tail) ==
    [i \in 1..(pad + Len(tail)) |->
        Product(i, IF i <= pad THEN PadImage ELSE tail[i - pad])]

\* Short catalogs with any images.
ShortCatalogs == {Catalog(0, t) : t \in Tails(MaxTail) \ {<<>>}}

\* Catalogs of about TopK products: TopK - 1 alike, then a tail of images
\* that score higher against <<1, 1>>.
LongCatalogs ==
    {Catalog(TopK - 1, t) : t \in {u \in Tails(MaxTail) \ {<<>>} :
                                      \A i \in 1..Len(u) : u[i] \in {"A", "C"}}}

\* The cache for a catalog: empty, filled by earlier searches, or filled with
\* the first entry left by a model of another output length.
ColdCache(c) == [i \in 1..Len(c) |-> Null]
WarmCache(c) ==
    [i \in 1..Len(c) |->
        IF c[i].imageUrl \in GoodImages THEN FeatureOf(c[i].imageUrl) ELSE Null]
ForeignCache(c) ==
    [i \in 1..Len(c) |-> IF i = 1 THEN ForeignVector ELSE WarmCache(c)[i]]

Queries == {<<1, 1>>, <<1, 0>>}
MinSimilarities == {100, 992}

InitSearch ==
    /\ \/ /\ redisProducts \in ShortCatalogs
          /\ redisFeatures \in {ColdCache(redisProducts), WarmCache(redisProducts),
                                ForeignCache(redisProducts)}
          /\ queryFeatures \in Queries
       \/ /\ redisProducts \in LongCatalogs
          /\ redisFeatures \in {ColdCache(redisProducts), WarmCache(redisProducts)}
          /\ queryFeatures = <<1, 1>>
    /\ minSimilarity \in MinSimilarities
    /\ pc = "call"
    /\ products = <<>>
    /\ idx = 1
    /\ similarities = <<>>
    /\ result = NoResult
    /\ log = <<>>
    /\ faultsLeft = MaxFaults
    /\ ServerIdle
    /\ FetchIdle
    /\ FreshProcess

NextSearch == StartSearch \/ ProcessProduct \/ FinishSearch

SpecSearch == InitSearch /\ [][NextSearch]_vars

\* No findSimilarProducts call is in progress.
SearchIdle ==
    /\ pc = "idle"
    /\ products = <<>>
    /\ idx = 1
    /\ similarities = <<>>
    /\ queryFeatures = <<>>
    /\ minSimilarity = 0
    /\ result = NoResult
    /\ log = <<>>

\* ------------------------------------- extractFeaturesFromUrl called alone

\* One call of extractFeaturesFromUrl on either revision, with what the
\* network, the downloaded bytes and the backbone do; the last two calls are
\* kept.  format and how are read only when the call gets that far.
CallExtractFeaturesFromUrl ==
    /\ \E net \in NetOutcomes, format \in Formats, how \in ExtractOutcomes :
        LET passed == ValidateDownload(revision, net, format).passed
            out == ExtractFeaturesFromUrl(revision, net, format, FeatureOf("A"), how)
            call == [net |-> net, format |-> format, how |-> how, out |-> out]
        IN  /\ net # "ok" => format = "jpeg"
            /\ ~passed => how = "ok"
            /\ calls' = IF Len(calls) < 2 THEN Append(calls, call)
                        ELSE <<calls[2], call>>
    /\ UNCHANGED <<searchVars, serverVars, revision, processorVars, loadVars,
                   previous, seeding, asyncVars>>

InitFetch ==
    /\ revision \in Impls
    /\ calls = <<>>
    /\ redisProducts = <<>>
    /\ redisFeatures = <<>>
    /\ faultsLeft = 0
    /\ SearchIdle
    /\ ServerIdle
    /\ FreshProcess

NextFetch == CallExtractFeaturesFromUrl

SpecFetch == InitFetch /\ [][NextFetch]_vars

\* ------------------------------------------------- server.js: the endpoints

\* findSimilarProducts(features): minSimilarity = 0.1
DefaultMinSimilarity == 100

\* initializeServices(): creates and initializes what is not there yet.
\* initialize() throws when the backbone does not load, testConnection()
\* when the ping fails; what was assigned before the throw stays assigned.
InitializeServices(ip, ps, loadOk, pingOk) ==
    LET loadThrew == ~ip.created /\ ~loadOk
        pingThrew == ~loadThrew /\ ~ps.created /\ ~pingOk
    IN  [imageProcessor |-> IF ip.created THEN ip
                            ELSE [created |-> TRUE, isInitialized |-> loadOk],
         productService |-> IF loadThrew THEN ps ELSE [created |-> TRUE],
         loads |-> ~ip.created,
         pings |-> ~loadThrew /\ ~ps.created,
         threw |-> loadThrew \/ pingThrew,
         message |-> IF loadThrew THEN <<ModelLoadError>>
                     ELSE <<"Database connection failed">>]

\* An endpoint that goes on to search although the extraction failed.
AfterExtractionLenient(kind, ex) ==
    [search |-> TRUE, query |-> IF ex.ok THEN ex.features ELSE <<0, 0>>,
     response |-> NoResponse]

\* The endpoint after `const features = await ...`: the search is called with
\* the features, or the catch block answers 500 with the error's message.
AfterExtraction(kind, ex) ==
    IF ex.ok THEN [search |-> TRUE, query |-> ex.features, response |-> NoResponse]
    ELSE [search |-> FALSE, query |-> <<>>,
          response |-> FailureResponse(500, <<ErrorPrefix(kind)>> \o ex.message)]

\* The files an upload carries: none, a decodable image, undecodable bytes.
UploadFiles == {"none", "A", "D", "corrupt"}

\* The endpoint up to the call of findSimilarProducts, for a request that
\* carries an image: initializeServices, then the extraction, `extract` giving
\* what it ends in for each way extractFeatures can go.
\* `usable` tells whether the extraction can succeed on this input.
ServeSearch(kind, input, usable, loadOk, pingOk, extractOk, extract) ==
    LET init == InitializeServices(imageProcessor, productService, loadOk, pingOk)
        lazy == ~init.threw /\ ~init.imageProcessor.isInitialized
        how == IF lazy /\ ~loadOk THEN "initFails"
               ELSE IF extractOk THEN "ok" ELSE "fails"
        ex == extract[how]
        reached == ~init.threw /\ ex.extractCalled
        next == AfterExtraction(kind, ex)
        faults == (IF loadOk THEN 0 ELSE 1) + (IF pingOk THEN 0 ELSE 1)
                  + (IF extractOk THEN 0 ELSE 1)
    IN  /\ faults <= faultsLeft
        \* a failure is injected only into a call that is made
        /\ ~loadOk => init.loads \/ (reached /\ lazy)
        /\ ~pingOk => init.pings
        /\ ~extractOk => reached /\ how = "fails" /\ usable
        /\ faultsLeft' = faultsLeft - faults
        /\ productService' = init.productService
        /\ modelLoads' = modelLoads + (IF init.loads THEN 1 ELSE 0)
                                    + (IF reached /\ lazy THEN 1 ELSE 0)
        /\ imageProcessor' =
              IF reached /\ lazy /\ loadOk
              THEN [created |-> TRUE, isInitialized |-> TRUE]
              ELSE init.imageProcessor
        /\ request' = [kind |-> kind, input |-> input, initThrew |-> init.threw,
                       extractFailed |-> ~init.threw /\ ~ex.ok,
                       extractMessage |-> IF ~init.threw /\ ~ex.ok THEN ex.message
                                          ELSE <<>>]
        /\ IF init.threw
           THEN /\ response' = FailureResponse(500, <<ErrorPrefix(kind)>> \o init.message)
                /\ pc' = "done"
                /\ queryFeatures' = <<>>
           ELSE /\ response' = next.response
                /\ pc' = IF next.search THEN "call" ELSE "done"
                /\ queryFeatures' = next.query
        /\ minSimilarity' = DefaultMinSimilarity
        /\ caller' = kind

\* What every request resets: the locals of the previous search.
BeginRequest ==
    /\ pc \in {"idle", "done"}
    /\ products' = <<>>
    /\ idx' = 1
    /\ similarities' = <<>>
    /\ result' = NoResult
    /\ log' = <<>>
    /\ findCalls' = 0
    /\ UNCHANGED <<redisProducts, redisFeatures, fetchVars, processorVars,
                   searchProcessor, previous, seeding, asyncVars>>

\* A request that is answered 400 before anything is initialized.
Reject(kind, message) ==
    /\ request' = [kind |-> kind, input |-> "none", initThrew |-> FALSE,
                   extractFailed |-> FALSE, extractMessage |-> <<>>]
    /\ response' = FailureResponse(400, <<message>>)
    /\ pc' = "done"
    /\ queryFeatures' = <<>>
    /\ minSimilarity' = DefaultMinSimilarity
    /\ caller' = kind
    /\ UNCHANGED <<faultsLeft, imageProcessor, productService, modelLoads, asyncVars>>

\* extractFeatures(req.file.buffer) of the server's imageProcessor.
ExtractUpload(file, how) ==
    LET e == ExtractFeatures(IF file \in GoodImages THEN FeatureOf(file) ELSE <<>>,
                             IF file = "corrupt" /\ how = "ok" THEN "fails" ELSE how)
    IN  IF e.ok THEN [ok |-> TRUE, extractCalled |-> TRUE, features |-> e.features]
        ELSE [ok |-> FALSE, extractCalled |-> TRUE, message |-> <<e.error.message>>]

\* POST /api/search/upload
SearchUpload ==
    /\ BeginRequest
    /\ \E file \in UploadFiles, loadOk, pingOk, extractOk \in BOOLEAN :
        IF file = "none"
        THEN /\ loadOk /\ pingOk /\ extractOk
             /\ Reject("upload", "No image file provided")
        ELSE ServeSearch("upload", file, file # "corrupt", loadOk, pingOk, extractOk,
                         [how \in ExtractOutcomes |-> ExtractUpload(file, how)])

\* The URLs a request names: none, or one with what its fetch ends in, the
\* format of its bytes and the image they show.
ImageUrls ==
    {[net |-> net, format |-> format, img |-> img] :
        net \in NetOutcomes, format \in Formats, img \in {"A", "D"}}

\* POST /api/search/url
SearchUrl ==
    /\ BeginRequest
    /\ \E loadOk, pingOk, extractOk \in BOOLEAN :
        \/ /\ loadOk /\ pingOk /\ extractOk
           /\ Reject("url", "No image URL provided")
        \/ \E url \in ImageUrls :
             /\ url.net # "ok" => url.format = "jpeg" /\ url.img = "A"
             /\ ~ValidateDownload("server", url.net, url.format).passed => url.img = "A"
             /\ ServeSearch("url", url, TRUE, loadOk, pingOk, extractOk,
                    [how \in ExtractOutcomes |->
                        ExtractFeaturesFromUrl("server", url.net, url.format,
                                               FeatureOf(url.img), how)])

\* The catalogs the server is started on.
ServerCatalogs == {Catalog(0, <<"A", "D">>), Catalog(0, <<"X", "C">>)}

InitServer ==
    /\ redisProducts \in ServerCatalogs
    /\ redisFeatures = ColdCache(redisProducts)
    /\ faultsLeft = MaxFaults
    /\ SearchIdle
    /\ ServerIdle
    /\ FetchIdle
    /\ FreshProcess

NextServer ==
    SearchUpload \/ SearchUrl \/ StartSearch \/ ProcessProduct \/ FinishSearch

SpecServer == InitServer /\ [][NextServer]_vars

\* --------------------------------- ImageProcessor: methods called directly

\* The vectors cosineSimilarity is tried on: every vector of one or two
\* components in -1 .. MaxComponent.
Vectors ==
    {<<x>> : x \in -1..MaxComponent}
        \cup {<<x, y>> : x, y \in -1..MaxComponent}

\* k times the vector v.
Scaled(v, k) == [i \in 1..Len(v) |-> k * v[i]]

\* cosineSimilarity(vectorA, vectorB) on two vectors, the second also a
\* multiple of the first.  Both revisions compute the same on arrays of
\* numbers; the revised one differs on null arguments, which are not tried.
CallCosineSimilarity ==
    /\ invoked = NoCall
    /\ \E a \in Vectors :
         \E b \in Vectors \cup {Scaled(a, k) : k \in 1..MaxScale} :
            invoked' = [op |-> "cosineSimilarity", a |-> a, b |-> b,
                        out |-> CosineSimilarity(a, b)]
    /\ UNCHANGED <<searchVars, serverVars, fetchVars, liveTensors, loadVars,
                   previous, seeding, asyncVars>>

\* The colours of the pixels tried, as red, green, blue and alpha bytes.
Colours == {<<255, 0, 0, 255>>, <<0, 128, 255, 0>>}

\* What sharp decodes and resizes an image buffer to: ResizeSide x ResizeSide
\* pixels of 3 channels, or of 4 when the image carries an alpha channel; or
\* bytes it cannot decode.
Bitmaps ==
    {[channels |-> c, pixels |-> px] :
        c \in {3, 4}, px \in [1..(ResizeSide * ResizeSide) -> Colours]}

\* Bytes sharp cannot decode.
Undecodable == [channels |-> 0, pixels |-> <<>>]

\* .raw().toBuffer(): the channel bytes of every pixel in turn, the alpha
\* byte left out after .removeAlpha().
RawData(bitmap, removeAlpha) ==
    LET n == IF removeAlpha THEN 3 ELSE bitmap.channels
    IN  [k \in 1..(n * Len(bitmap.pixels)) |->
            bitmap.pixels[((k - 1) \div n) + 1][((k - 1) % n) + 1]]

\* The bucket counts one channel ends with: for (i = 0; i < data.length;
\* i += 3) histogram.c[data[i + offset]]++.  Past the end data[...] is
\* undefined and no bucket is counted up.
CountChannel(data, offset) ==
    [v \in 0..(Buckets - 1) |->
        Cardinality({i \in 0..(Len(data) - 1) :
                        /\ i % 3 = 0
                        /\ i + offset < Len(data)
                        /\ data[i + offset + 1] = v})]

\* Whether the revision removes the alpha channel before .raw().
RemovesAlpha(impl) == impl = "revised"

\* extractColorHistogram(imageBuffer): the three channels' buckets, each to
\* be read as count / totalPixels, or null when sharp throws.
ExtractColorHistogram(impl, bitmap) ==
    IF bitmap = Undecodable THEN Null
    ELSE LET data == RawData(bitmap, RemovesAlpha(impl))
         IN  [r |-> CountChannel(data, 0), g |-> CountChannel(data, 1),
              b |-> CountChannel(data, 2),
              totalPixels |-> ResizeSide * ResizeSide]

CallExtractColorHistogram ==
    /\ invoked = NoCall
    /\ \E bitmap \in Bitmaps \cup {Undecodable} :
         invoked' = [op |-> "extractColorHistogram", bitmap |-> bitmap,
                     out |-> ExtractColorHistogram(revision, bitmap)]
    /\ UNCHANGED <<searchVars, serverVars, fetchVars, liveTensors, loadVars,
                   previous, seeding, asyncVars>>

RECURSIVE Gcd(_, _)
Gcd(a, b) == IF b = 0 THEN a ELSE Gcd(b, a % b)

\* Exact fractions n / d, d > 0, in lowest terms, for the arithmetic on scores.
Frac(n, d) ==
    LET g == Gcd(IF n < 0 THEN -n ELSE n, d)
    IN  [n |-> n \div g, d |-> d \div g]
FracAdd(x, y) == Frac(x.n * y.d + y.n * x.d, x.d * y.d)
FracMul(x, y) == Frac(x.n * y.n, x.d * y.d)
FracEq(x, y) == x.n * y.d = y.n * x.d

\* The integer root of n between lo and hi, by bisection.
RECURSIVE Root(_, _, _)
Root(n, lo, hi) ==
    IF lo >= hi THEN lo
    ELSE LET mid == (lo + hi + 1) \div 2
         IN  IF mid * mid <= n THEN Root(n, mid, hi) ELSE Root(n, lo, mid - 1)

\* A score num / sqrt(den2) as a fraction; the vectors tried below have
\* norms whose product is a perfect square.
AsFraction(score) == Frac(score.num, Root(score.den2, 0, score.den2))

\* A blend that weighs both terms alike.
BlendEqualWeights(featureSimilarity, colorSimilarity) ==
    FracAdd(FracMul(featureSimilarity, Frac(1, 2)),
            FracMul(colorSimilarity, Frac(1, 2)))

\* featureSimilarity * 0.8 + colorSimilarity * 0.2
Blend(featureSimilarity, colorSimilarity) ==
    FracAdd(FracMul(featureSimilarity, Frac(8, 10)),
            FracMul(colorSimilarity, Frac(2, 10)))

\* calculateEnhancedSimilarity(features1, features2, histogram1, histogram2):
\* the blended value, or the throw of a cosineSimilarity call.
CalculateEnhancedSimilarity(features1, features2, histogram1, histogram2) ==
    LET featureSimilarity == CosineSimilarity(features1, features2)
        both == histogram1 # Null /\ histogram2 # Null
        rSim == IF both THEN CosineSimilarity(histogram1.r, histogram2.r) ELSE Throws
        gSim == IF both THEN CosineSimilarity(histogram1.g, histogram2.g) ELSE Throws
        bSim == IF both THEN CosineSimilarity(histogram1.b, histogram2.b) ELSE Throws
    IN  IF featureSimilarity.threw THEN Throws
        ELSE IF ~both
             THEN [threw |-> FALSE,
                   value |-> Blend(AsFraction(featureSimilarity), Frac(0, 1))]
        ELSE IF rSim.threw \/ gSim.threw \/ bSim.threw THEN Throws
        ELSE [threw |-> FALSE,
              value |-> Blend(AsFraction(featureSimilarity),
                              FracMul(FracAdd(FracAdd(AsFraction(rSim), AsFraction(gSim)),
                                              AsFraction(bSim)),
                                      Frac(1, 3)))]

\* Feature vectors and histogram channels for calculateEnhancedSimilarity;
\* a channel is given by its bucket counts, whose cosine is that of the
\* normalised buckets.
BlendFeatures == {<<1, 0>>, <<0, 1>>, <<3, 4>>, <<4, 3>>, <<0, 0>>, <<1, 0, 0>>}
BlendHistograms ==
    {[r |-> r, g |-> g, b |-> b] :
        r \in {<<1, 0>>, <<0, 1>>, <<3, 4>>}, g \in {<<1, 0>>, <<0, 1>>},
        b \in {<<1, 0>>, <<4, 3>>}}

CallCalculateEnhancedSimilarity ==
    /\ invoked = NoCall
    /\ \E features1, features2 \in BlendFeatures :
         \E histogram1, histogram2 \in BlendHistograms \cup {Null} :
            invoked' = [op |-> "calculateEnhancedSimilarity",
                        features1 |-> features1, features2 |-> features2,
                        histogram1 |-> histogram1, histogram2 |-> histogram2,
                        out |-> CalculateEnhancedSimilarity(features1, features2,
                                                            histogram1, histogram2)]
    /\ UNCHANGED <<searchVars, serverVars, fetchVars, liveTensors, loadVars,
                   previous, seeding, asyncVars>>

\* The steps of extractFeatures that can throw, in the order they run: the
\* first four are preprocessImage's.  A call fails at one of them or at none.
Steps == <<"decode", "tensor3d", "div", "expandDims", "predict", "data">>
StepOf(failAt) ==
    IF failAt = "none" THEN Len(Steps) + 1
    ELSE CHOOSE i \in 1..Len(Steps) : Steps[i] = failAt

\* The tensors a call that fails at step f has created by then: tensor by
\* tf.tensor3d, normalized by div, batched by expandDims, features by predict.
Created(f) ==
    {"tensor" : x \in {1} \ {y \in {1} : f <= 2}}
        \cup {"normalized" : x \in {1} \ {y \in {1} : f <= 3}}
        \cup {"batched" : x \in {1} \ {y \in {1} : f <= 4}}
        \cup {"features" : x \in {1} \ {y \in {1} : f <= 5}}

\* The tensors the call has disposed when it ends.  The server class
\* disposes tensor and normalized after expandDims, and processedImage (the
\* batched tensor) and features after features.data(), all inside the try
\* blocks; the revised class disposes what was created in finally blocks.
Disposed(impl, f) ==
    IF impl = "server"
    THEN (IF f > 4 THEN {"tensor", "normalized"} ELSE {})
            \cup (IF f > 6 THEN {"batched", "features"} ELSE {})
    ELSE Created(f)

\* initialize() as extractFeatures awaits it when isInitialized is false: the
\* load throws, or isInitialized is set and the warm-up runs, which leaves
\* its input tensor undisposed when its predict throws.
InitOutcomes == {"ok", "loadFails", "warmupFails"}
Initialize(processor, outcome) ==
    IF processor.isInitialized
    THEN [processor |-> processor, loads |-> 0, threw |-> FALSE, leaked |-> 0]
    ELSE [processor |-> [processor EXCEPT !.isInitialized = outcome # "loadFails"],
          loads |-> 1,
          threw |-> outcome # "ok",
          leaked |-> IF outcome = "warmupFails" THEN 1 ELSE 0]

\* extractFeatures(imageBuffer) called on `processor`: what it returns or
\* throws, whether model.predict was called on the image, and the tensors
\* it leaves undisposed.
ExtractFeaturesCall(impl, processor, features, outcome, failAt) ==
    LET init == Initialize(processor, outcome)
        f == StepOf(failAt)
        how == IF init.threw THEN "initFails"
               ELSE IF failAt = "none" THEN "ok" ELSE "fails"
    IN  [processor |-> init.processor,
         loads |-> init.loads,
         inferenceRan |-> ~init.threw /\ f >= 5,
         leaked |-> IF init.threw THEN init.leaked
                    ELSE Cardinality(Created(f) \ Disposed(impl, f)),
         out |-> ExtractFeatures(features, how)]

FailPoints == {"none"} \cup {Steps[i] : i \in 1..Len(Steps)}

\* One direct call of extractFeatures; outcome is read only when the call
\* initializes, failAt only when the initialization does not throw.
CallExtractFeatures ==
    /\ \E outcome \in InitOutcomes, failAt \in FailPoints, img \in {"A", "D"} :
         LET r == ExtractFeaturesCall(revision, imageProcessor, FeatureOf(img),
                                      outcome, failAt)
         IN  /\ imageProcessor.isInitialized => outcome = "ok"
             /\ (r.loads = 1 /\ outcome # "ok") => failAt = "none"
             /\ failAt # "none" => img = "A"
             /\ liveTensors + r.leaked <= MaxLiveTensors
             \* a failing load or warm-up is a transient failure
             /\ outcome # "ok" => faultsLeft > 0
             /\ faultsLeft' = IF outcome = "ok" THEN faultsLeft ELSE faultsLeft - 1
             /\ invoked' = [op |-> "extractFeatures",
                            initializedBefore |-> imageProcessor.isInitialized,
                            outcome |-> outcome, failAt |-> failAt,
                            inferenceRan |-> r.inferenceRan,
                            liveBefore |-> liveTensors,
                            liveAfter |-> liveTensors + r.leaked,
                            out |-> r.out]
             /\ liveTensors' = liveTensors + r.leaked
             /\ imageProcessor' = r.processor
             /\ modelLoads' = modelLoads + r.loads
    /\ UNCHANGED <<redisProducts, redisFeatures, pc, products, idx, similarities,
                   queryFeatures, minSimilarity, result, log, caller, request,
                   response, findCalls, productService, fetchVars, searchProcessor,
                   previous, seeding, asyncVars>>

\* An ImageProcessor that was constructed, with its backbone loaded or not,
\* in a process that does nothing else.
InitProcessor ==
    /\ revision \in Impls
    /\ imageProcessor \in {[created |-> TRUE, isInitialized |-> b] : b \in BOOLEAN}
    /\ modelLoads = IF imageProcessor.isInitialized THEN 1 ELSE 0
    /\ invoked = NoCall
    /\ liveTensors = 0
    /\ searchProcessor = [isInitialized |-> FALSE]
    /\ previous = NoPrevious
    /\ seeding = SeedOff
    /\ AsyncIdle
    /\ calls = <<>>
    /\ redisProducts = <<>>
    /\ redisFeatures = <<>>
    /\ faultsLeft = MaxFaults
    /\ SearchIdle
    /\ caller = "direct"
    /\ request = NoRequest
    /\ response = NoResponse
    /\ findCalls = 0
    /\ productService = [created |-> FALSE]

NextProcessor ==
    \/ CallCosineSimilarity
    \/ CallExtractColorHistogram
    \/ CallCalculateEnhancedSimilarity
    \/ CallExtractFeatures

SpecProcessor == InitProcessor /\ [][NextProcessor]_vars

\* ------------------------------------ findSimilarProducts called twice

\* A cache with a vector for every product: the one extracted from its image,
\* and for a product whose URL no longer resolves the one stored while it did.
FullCache(c) ==
    [i \in 1..Len(c) |->
        IF c[i].imageUrl \in GoodImages THEN FeatureOf(c[i].imageUrl)
        ELSE FeatureOf("B")]

\* The caller calls findSimilarProducts again with the same arguments after
\* the first call has returned or thrown.
CallAgain ==
    /\ pc = "done"
    /\ previous = NoPrevious
    /\ previous' = [kind |-> "called", result |-> result, log |-> log]
    /\ pc' = "call"
    /\ result' = NoResult
    /\ UNCHANGED <<redisProducts, redisFeatures, products, idx, similarities,
                   queryFeatures, minSimilarity, log, faultsLeft, serverVars,
                   fetchVars, processorVars, loadVars, seeding,
                   asyncVars>>

InitRepeat ==
    /\ redisProducts \in ShortCatalogs
    /\ redisFeatures \in {ColdCache(redisProducts), WarmCache(redisProducts),
                          ForeignCache(redisProducts), FullCache(redisProducts)}
    /\ queryFeatures \in Queries
    /\ minSimilarity \in MinSimilarities
    /\ pc = "call"
    /\ products = <<>>
    /\ idx = 1
    /\ similarities = <<>>
    /\ result = NoResult
    /\ log = <<>>
    /\ faultsLeft = MaxFaults
    /\ ServerIdle
    /\ FetchIdle
    /\ FreshProcess

NextRepeat == StartSearch \/ ProcessProduct \/ FinishSearch \/ CallAgain

SpecRepeat == InitRepeat /\ [][NextRepeat]_vars

\* ------------------------------------------- seedProducts.js: the script

\* Where clearAllData can throw: at the del of the catalog key, in
\* getAllProducts, or at the del of the k-th product's features.
ClearFailures ==
    {[step |-> "none", k |-> 0], [step |-> "delProducts", k |-> 0],
     [step |-> "getAll", k |-> 0]}
        \cup {[step |-> "delFeatures", k |-> k] : k \in {1, SampleCount}}

\* clearAllData(): deletes the catalog key, then asks getAllProducts for the
\* products, which finds no catalog and writes the sample catalog, and
\* deletes the features entry of each product so returned.
ClearAllData(catalog, store, fail) ==
    IF fail.step = "delProducts"
    THEN [threw |-> TRUE, catalog |-> catalog, store |-> store]
    ELSE IF fail.step = "getAll"
    THEN [threw |-> TRUE, catalog |-> <<>>, store |-> store]
    ELSE LET upTo == IF fail.step = "delFeatures" THEN fail.k - 1 ELSE SampleCount
             ids == {SampleProducts[i].id : i \in 1..upTo}
         IN  [threw |-> fail.step # "none",
              catalog |-> SampleProducts,
              store |-> [i \in DOMAIN store \cup ids |->
                            IF i \in ids THEN Null ELSE store[i]]]

\* The script has ended with process.exit(1) or process.exit(0).
SeedFailed == [pc |-> "failed"]
SeedExited == [pc |-> "exited"]

\* testConnection() and imageProcessor.initialize() of the script's own
\* ProductService and ImageProcessor.
SeedConnect ==
    /\ seeding.pc = "start"
    /\ \E pingOk, loadOk \in BOOLEAN :
        /\ (~pingOk \/ ~loadOk) => faultsLeft > 0
        /\ ~pingOk => loadOk
        /\ faultsLeft' = IF pingOk /\ loadOk THEN faultsLeft ELSE faultsLeft - 1
        /\ modelLoads' = IF pingOk THEN modelLoads + 1 ELSE modelLoads
        /\ seeding' = IF pingOk /\ loadOk THEN [seeding EXCEPT !.pc = "clear"]
                      ELSE SeedFailed
    /\ UNCHANGED <<redisProducts, redisFeatures, pc, products, idx, similarities,
                   queryFeatures, minSimilarity, result, log, serverVars, fetchVars,
                   processorVars, searchProcessor, previous, asyncVars>>

\* await productService.clearAllData()
SeedClear ==
    /\ seeding.pc = "clear"
    /\ \E fail \in ClearFailures :
        LET r == ClearAllData(redisProducts, redisFeatures, fail)
        IN  /\ fail.step # "none" => faultsLeft > 0
            /\ faultsLeft' = IF fail.step = "none" THEN faultsLeft ELSE faultsLeft - 1
            /\ redisProducts' = r.catalog
            /\ redisFeatures' = r.store
            /\ seeding' = IF r.threw THEN SeedFailed
                          ELSE [seeding EXCEPT !.pc = "init"]
    /\ UNCHANGED <<pc, products, idx, similarities, queryFeatures, minSimilarity,
                   result, log, serverVars, fetchVars, processorVars, loadVars,
                   previous, asyncVars>>

\* const products = await productService.initializeSampleProducts()
SeedInitialize ==
    /\ seeding.pc = "init"
    /\ \E writeOk \in BOOLEAN :
        /\ ~writeOk => faultsLeft > 0
        /\ faultsLeft' = IF writeOk THEN faultsLeft ELSE faultsLeft - 1
        /\ redisProducts' = IF writeOk THEN SampleProducts ELSE redisProducts
        /\ seeding' = IF writeOk
                      THEN [pc |-> "loop", products |-> SampleProducts, idx |-> 1,
                            processed |-> 0]
                      ELSE SeedFailed
    /\ UNCHANGED <<redisFeatures, pc, products, idx, similarities, queryFeatures,
                   minSimilarity, result, log, serverVars, fetchVars, processorVars,
                   loadVars, previous, asyncVars>>

\* One pass of the script's loop: extractFeaturesFromUrl on the product's
\* image, then storeProductFeatures; a throw skips the product.
SeedProduct ==
    /\ seeding.pc = "loop"
    /\ seeding.idx <= Len(seeding.products)
    /\ \E fetchOk, writeOk \in BOOLEAN :
        LET product == seeding.products[seeding.idx]
            ex == ExtractFeaturesFromUrl("server", NetOf(product.imageUrl, ~fetchOk),
                      "jpeg", IF product.imageUrl \in GoodImages
                              THEN FeatureOf(product.imageUrl) ELSE <<>>, "ok")
            st == IF ex.ok
                  THEN StoreProductFeatures(redisFeatures, product.id, ex.features,
                                            writeOk)
                  ELSE [threw |-> FALSE, store |-> redisFeatures]
            faults == (IF fetchOk THEN 0 ELSE 1) + (IF writeOk THEN 0 ELSE 1)
        IN  /\ faults <= faultsLeft
            /\ ~fetchOk => product.imageUrl # "X"
            /\ ~writeOk => ex.ok
            /\ faultsLeft' = faultsLeft - faults
            /\ redisFeatures' = st.store
            /\ seeding' = [seeding EXCEPT
                              !.idx = @ + 1,
                              !.processed = IF ex.ok /\ ~st.threw THEN @ + 1 ELSE @]
    /\ UNCHANGED <<redisProducts, pc, products, idx, similarities, queryFeatures,
                   minSimilarity, result, log, serverVars, fetchVars, processorVars,
                   loadVars, previous, asyncVars>>

\* After the loop: getProductFeatures of the first product and, when there
\* are features, findSimilarProducts(testFeatures, 0.1).
SeedTest ==
    /\ seeding.pc = "loop"
    /\ seeding.idx > Len(seeding.products)
    /\ \E readOk \in BOOLEAN :
        LET testFeatures == GetProductFeatures(redisFeatures, seeding.products[1].id,
                                               readOk)
        IN  /\ ~readOk => faultsLeft > 0
            /\ faultsLeft' = IF readOk THEN faultsLeft ELSE faultsLeft - 1
            /\ IF testFeatures # Null
               THEN /\ pc' = "call"
                    /\ queryFeatures' = testFeatures
                    /\ minSimilarity' = 100
                    /\ caller' = "seed"
                    /\ seeding' = [seeding EXCEPT !.pc = "search"]
               ELSE /\ seeding' = SeedExited
                    /\ UNCHANGED <<pc, queryFeatures, minSimilarity, caller, asyncVars>>
    /\ UNCHANGED <<redisProducts, redisFeatures, products, idx, similarities, result,
                   log, request, response, findCalls, imageProcessor, productService,
                   fetchVars, processorVars, loadVars, previous,
                   asyncVars>>

\* The script ends when findSimilarProducts has returned or thrown.
SeedExit ==
    /\ seeding.pc = "search"
    /\ pc = "done"
    /\ seeding' = IF result.kind = "threw" THEN SeedFailed ELSE SeedExited
    /\ UNCHANGED <<searchVars, serverVars, fetchVars, processorVars, loadVars,
                   previous, asyncVars>>

\* The stores the script is run on: an empty one, one seeded before, and one
\* with a small catalog of its own; every product has its features stored.
SeedCatalogs == {<<>>, SampleProducts, Catalog(0, <<"A", "D">>)}

\* The script is disturbed by at most one transient failure.
InitSeed ==
    /\ redisProducts \in SeedCatalogs
    /\ redisFeatures = WarmCache(redisProducts)
    /\ faultsLeft \in {0, 1}
    /\ seeding = [pc |-> "start"]
    /\ SearchIdle
    /\ ServerIdle
    /\ FetchIdle
    /\ invoked = NoCall
    /\ liveTensors = 0
    /\ modelLoads = 0
    /\ searchProcessor = [isInitialized |-> FALSE]
    /\ previous = NoPrevious
    /\ AsyncIdle

NextSeed ==
    \/ SeedConnect
    \/ SeedClear
    \/ SeedInitialize
    \/ SeedProduct
    \/ SeedTest
    \/ StartSearch
    \/ ProcessProduct
    \/ FinishSearch
    \/ SeedExit

SpecSeed == InitSeed /\ [][NextSeed]_vars

\* --------------------------- findSimilarProducts calls running side by side

\* Two requests are served at once: each findSimilarProducts call runs from
\* one await to the next, and the other call may run in between.  A step is
\* the store or network operation a call awaits together with the code that
\* follows it up to the next await.

CallIds == {1, 2}

\* A call that has not reached its first await.
NewSearch(query, min) ==
    [pc |-> "call", queryFeatures |-> query, minSimilarity |-> min,
     products |-> <<>>, idx |-> 1, productFeatures |-> Null,
     similarities |-> <<>>, log |-> <<>>, result |-> NoResult]

\* What the log of a call says about a product when its pass begins.
NewEntry(id, cached, got) ==
    [id |-> id, cached |-> cached, got |-> got, fetched |-> FALSE,
     extractedFeatures |-> Null, wrote |-> FALSE, stored |-> FALSE,
     features |-> Null, score |-> Throws, kept |-> FALSE]

\* The last entry of the log of call s, changed to e.
WithLast(s, e) == [s.log EXCEPT ![Len(s.log)] = e]

\* `continue`, or the end of the loop body: the next product, or the code
\* after the loop when there is none.
NextProduct(s) ==
    [s EXCEPT !.idx = s.idx + 1, !.productFeatures = Null,
              !.pc = IF s.idx + 1 > Len(s.products) THEN "sort" ELSE "read"]

\* Lines 110-121 for the product of the current pass: cosineSimilarity, the
\* threshold test and the push; a throw is caught by the outer try.
ScoreProduct(s, features) ==
    LET product == s.products[s.idx]
        score == CosineSimilarity(s.queryFeatures, features)
        kept == ~score.threw /\ Keeps(score, s.minSimilarity)
        e == [s.log[Len(s.log)] EXCEPT !.features = features, !.score = score,
                                       !.kept = kept]
    IN  NextProduct([s EXCEPT !.log = WithLast(s, e),
                              !.similarities =
                                  IF kept THEN Append(s.similarities,
                                                      SearchResult(product, score))
                                  ELSE s.similarities])

\* await this.getAllProducts(), on a catalog that is not empty.
BeginSearch(k) ==
    /\ searches[k].pc = "call"
    /\ \E readOk \in BOOLEAN :
        /\ ~readOk => faultsLeft > 0
        /\ faultsLeft' = IF readOk THEN faultsLeft ELSE faultsLeft - 1
        /\ searches' = [searches EXCEPT ![k] =
              IF readOk
              THEN [@ EXCEPT !.products = redisProducts, !.pc = "read"]
              ELSE [@ EXCEPT !.result = Threw(<<"Failed to find similar products">>),
                             !.pc = "done"]]
    /\ UNCHANGED <<redisProducts, redisFeatures, pc, products, idx, similarities,
                   queryFeatures, minSimilarity, result, log, serverVars, fetchVars,
                   processorVars, loadVars, previous, seeding, cacheAtStart,
                   lifecycleVars, initVars, catalogVars, frontendVars>>

\* await this.getProductFeatures(product.id): a vector that was read is
\* scored at once, a miss goes on to the fetch.
ReadFeatures(k) ==
    /\ searches[k].pc = "read"
    /\ \E readOk \in BOOLEAN :
        LET s == searches[k]
            product == s.products[s.idx]
            got == GetProductFeatures(redisFeatures, product.id, readOk)
            entry == NewEntry(product.id, StoredFeatures(redisFeatures, product.id), got)
            t == [s EXCEPT !.log = Append(s.log, entry), !.productFeatures = got]
        IN  /\ ~readOk => faultsLeft > 0
            /\ faultsLeft' = IF readOk THEN faultsLeft ELSE faultsLeft - 1
            /\ searches' = [searches EXCEPT ![k] =
                  IF CacheMiss(got) THEN [t EXCEPT !.pc = "fetch"]
                  ELSE ScoreProduct(t, got)]
    /\ UNCHANGED <<redisProducts, redisFeatures, pc, products, idx, similarities,
                   queryFeatures, minSimilarity, result, log, serverVars, fetchVars,
                   processorVars, loadVars, previous, seeding, cacheAtStart,
                   lifecycleVars, initVars, catalogVars, frontendVars>>

\* extractFeaturesFromUrl(product.imageUrl) for the product of the current
\* pass of call s, the download failing or not.
ExtractForPass(s, fetchOk) ==
    LET product == s.products[s.idx]
    IN  ExtractFeaturesFromUrl("server", NetOf(product.imageUrl, ~fetchOk), "jpeg",
            IF product.imageUrl \in GoodImages THEN FeatureOf(product.imageUrl)
            ELSE <<>>, "ok")

\* The call after extractFeaturesFromUrl returned or threw ex: a throw is
\* caught by the inner try, which moves on to the next product.
AfterExtract(s, ex) ==
    LET e == [s.log[Len(s.log)] EXCEPT
                 !.fetched = TRUE,
                 !.extractedFeatures = IF ex.ok THEN ex.features ELSE Null]
        t == [s EXCEPT !.log = WithLast(s, e)]
    IN  IF ex.ok THEN [t EXCEPT !.productFeatures = ex.features, !.pc = "store"]
        ELSE NextProduct(t)

\* await this.imageProcessor.extractFeaturesFromUrl(product.imageUrl): the
\* download and its checks, and the extraction when the backbone of the
\* ProductService's processor is loaded; when it is not, extractFeatures
\* awaits initialize() first.
FetchAndExtract(k) ==
    /\ searches[k].pc = "fetch"
    /\ \E fetchOk \in BOOLEAN :
        LET s == searches[k]
            ex == ExtractForPass(s, fetchOk)
        IN  /\ ~fetchOk => faultsLeft > 0 /\ s.products[s.idx].imageUrl # "X"
            /\ faultsLeft' = IF fetchOk THEN faultsLeft ELSE faultsLeft - 1
            /\ searches' = [searches EXCEPT ![k] =
                  IF ex.extractCalled /\ ~searchProcessor.isInitialized
                  THEN [s EXCEPT !.pc = "load"]
                  ELSE AfterExtract(s, ex)]
    /\ UNCHANGED <<redisProducts, redisFeatures, pc, products, idx, similarities,
                   queryFeatures, minSimilarity, result, log, serverVars, fetchVars,
                   processorVars, loadVars, previous, seeding, cacheAtStart,
                   lifecycleVars, initVars, catalogVars, frontendVars>>

\* await this.initialize() inside extractFeatures, then the extraction: a
\* call that found isInitialized false loads the backbone, also when the
\* other call has loaded it in the meantime.
LoadAndExtract(k) ==
    /\ searches[k].pc = "load"
    /\ searches' = [searches EXCEPT ![k] =
          AfterExtract(searches[k], ExtractForPass(searches[k], TRUE))]
    /\ modelLoads' = modelLoads + 1
    /\ searchProcessor' = [isInitialized |-> TRUE]
    /\ UNCHANGED <<searchVars, serverVars, fetchVars, processorVars, previous,
                   seeding, cacheAtStart, lifecycleVars, initVars, catalogVars,
                   frontendVars>>

\* await this.storeProductFeatures(product.id, productFeatures), then the
\* scoring of the extracted vector.
StoreAndScore(k) ==
    /\ searches[k].pc = "store"
    /\ \E writeOk \in BOOLEAN :
        LET s == searches[k]
            product == s.products[s.idx]
            st == StoreProductFeatures(redisFeatures, product.id, s.productFeatures,
                                       writeOk)
            e == [s.log[Len(s.log)] EXCEPT !.wrote = TRUE, !.stored = writeOk]
            t == [s EXCEPT !.log = WithLast(s, e)]
        IN  /\ ~writeOk => faultsLeft > 0
            /\ faultsLeft' = IF writeOk THEN faultsLeft ELSE faultsLeft - 1
            /\ redisFeatures' = st.store
            /\ searches' = [searches EXCEPT ![k] =
                  IF st.threw THEN NextProduct(t)
                  ELSE ScoreProduct(t, s.productFeatures)]
    /\ UNCHANGED <<redisProducts, pc, products, idx, similarities,
                   queryFeatures, minSimilarity, result, log, serverVars, fetchVars,
                   processorVars, loadVars, previous, seeding, cacheAtStart,
                   lifecycleVars, initVars, catalogVars, frontendVars>>

\* After the loop: sort, truncate, return.
ReturnSearch(k) ==
    /\ searches[k].pc = "sort"
    /\ LET s == searches[k]
       IN  searches' = [searches EXCEPT ![k] =
              [s EXCEPT !.result = Returned(TopSlice(SortBySimilarity(s.similarities))),
                        !.pc = "done"]]
    /\ UNCHANGED <<searchVars, serverVars, fetchVars, processorVars, loadVars,
                   previous, seeding, cacheAtStart, lifecycleVars, initVars,
                   catalogVars, frontendVars>>

\* What one call running alone, with no failure, returns and leaves in the
\* store: the passes of the loop one after another.
RECURSIVE SoloPasses(_, _, _, _, _, _)
SoloPasses(catalog, i, store, query, min, sims) ==
    IF i > Len(catalog)
    THEN [store |-> store, result |-> Returned(TopSlice(SortBySimilarity(sims)))]
    ELSE LET r == ProcessOne(catalog[i], store, query, min, TRUE, TRUE, TRUE)
         IN  SoloPasses(catalog, i + 1, r.store, query, min, sims \o r.push)

SoloSearch(catalog, store, query, min) == SoloPasses(catalog, 1, store, query, min, <<>>)

\* The second call's arguments vary; the first call's are fixed.
InitConcurrent ==
    /\ redisProducts \in ShortCatalogs
    /\ redisFeatures \in {ColdCache(redisProducts), WarmCache(redisProducts),
                          ForeignCache(redisProducts)}
    /\ cacheAtStart = redisFeatures
    /\ \E query \in Queries, min \in MinSimilarities :
          searches = <<NewSearch(<<1, 1>>, DefaultMinSimilarity), NewSearch(query, min)>>
    /\ faultsLeft = MaxFaults
    /\ SearchIdle
    /\ ServerIdle
    /\ FetchIdle
    /\ invoked = NoCall
    /\ liveTensors = 0
    /\ modelLoads = 0
    /\ searchProcessor = [isInitialized |-> FALSE]
    /\ previous = NoPrevious
    /\ seeding = SeedOff
    /\ LifecycleIdle
    /\ InitIdle
    /\ CatalogIdle
    /\ FrontendIdle

NextConcurrent ==
    \E k \in CallIds :
        \/ BeginSearch(k)
        \/ ReadFeatures(k)
        \/ FetchAndExtract(k)
        \/ LoadAndExtract(k)
        \/ StoreAndScore(k)
        \/ ReturnSearch(k)

SpecConcurrent == InitConcurrent /\ [][NextConcurrent]_vars

\* ------------------------------------------- the page: src/public/script.js

\* A VisualProductMatcher in the browser.  The user loads an image, clicks
\* the search and clear buttons, moves the filter and clicks category cards;
\* every await of performSearch and browseCategory is a point where another
\* event handler may run.

\* The most calls the page awaits at once.
MaxInflight == 2

\* What #preview-image can show: a read file or a URL.
ImageSources == {"data:image/png", "https://shop/img.jpg"}

\* A product as the page holds it.
Shown(id, percent) == [id |-> id, matchPercentage |-> percent]

\* The `data` of a successful search response.
SearchData == {<<>>, <<Shown(1, 95)>>, <<Shown(2, 88), Shown(3, 40)>>}

\* The `data` of a successful category response.
CategoryData == {<<>>, <<[id |-> 4]>>}

Categories == {"electronics", "home", "toys"}

\* generateMockResults(): five fixed products.
MockResults ==
    <<Shown(1, 95), Shown(2, 87), Shown(3, 82), Shown(4, 78), Shown(5, 75)>>

\* getCategoryMockData(category): categoryData[category] || [].
GetCategoryMockData(category) ==
    CASE category = "electronics" -> <<Shown(11, 100), Shown(12, 100)>>
      [] category = "home" -> <<Shown(13, 100)>>
      [] OTHER -> <<>>

\* How an awaited API call ends: a success response, a response that is not
\* OK, a rejected fetch, a body with success = false, a body that is no JSON.
ApiOutcomes == {"ok", "status", "network", "unsuccessful", "badJson"}

Remove(s, i) == SubSeq(s, 1, i - 1) \o SubSeq(s, i + 1, Len(s))

\* displayResults(results), with displayNoResults for an empty list.
DisplayResults(page, results) ==
    [page EXCEPT !.section = TRUE, !.noResults = (results = <<>>), !.grid = results]

\* data.data.map(product => ({...product, matchPercentage: 100, similarity: 1.0}))
AsMatches(data) == [i \in 1..Len(data) |-> Shown(data[i].id, 100)]

\* currentResults.filter(product => product.matchPercentage >= threshold)
RECURSIVE FilterResults(_, _)
FilterResults(results, threshold) ==
    IF results = <<>> THEN <<>>
    ELSE (IF Head(results).matchPercentage >= threshold THEN <<Head(results)>>
          ELSE <<>>) \o FilterResults(Tail(results), threshold)

\* displayImagePreview(imageSrc), from a file that was read or a URL entered.
DisplayImagePreview ==
    /\ \E src \in ImageSources : previewSrc' = src
    /\ shown' = [shown EXCEPT !.toast = "loaded"]
    /\ UNCHANGED <<searchVars, serverVars, fetchVars, processorVars, loadVars,
                   previous, seeding, concurrentVars, lifecycleVars, initVars,
                   catalogVars, isSearching, currentResults, inflight, clearedSince>>

\* clearImage(): hides the preview and the results section and empties
\* currentResults; the image element keeps its src, the grid its cards, and
\* the calls awaited go on.
ClearImage ==
    /\ currentResults' = <<>>
    /\ shown' = [shown EXCEPT !.section = FALSE, !.toast = "cleared"]
    /\ clearedSince' = TRUE
    /\ UNCHANGED <<searchVars, serverVars, fetchVars, processorVars, loadVars,
                   previous, seeding, concurrentVars, lifecycleVars, initVars,
                   catalogVars, isSearching, previewSrc, inflight>>

\* A performSearch that returns only when there is no image.
StartsSearchUnguarded(searching, src) == src # ""

\* The two early returns of performSearch: a search is running, or the
\* preview has no src.
StartsSearch(searching, src) == ~searching /\ src # ""

\* performSearch() up to its first await: nothing when a search is running,
\* a warning when there is no image; otherwise isSearching is set, the
\* loading state shown and the first call issued, which for a read file is
\* the fetch of the data URL.
PerformSearch ==
    /\ IF StartsSearch(isSearching, previewSrc)
       THEN /\ isSearching' = TRUE
            /\ shown' = [shown EXCEPT !.section = TRUE, !.loading = TRUE]
            /\ inflight' = Append(inflight,
                              [caller |-> "search", category |-> "",
                               stage |-> IF previewSrc = "data:image/png"
                                         THEN "blob" ELSE "api"])
            /\ clearedSince' = FALSE
       ELSE IF isSearching
       THEN UNCHANGED <<isSearching, shown, inflight, clearedSince>>
       ELSE /\ shown' = [shown EXCEPT !.toast = "uploadFirst"]
            /\ UNCHANGED <<isSearching, inflight, clearedSince>>
    /\ UNCHANGED <<searchVars, serverVars, fetchVars, processorVars, loadVars,
                   previous, seeding, concurrentVars, lifecycleVars, initVars,
                   catalogVars, currentResults, previewSrc>>

\* The search has ended: the finally block.
SearchEnded(page) == [page EXCEPT !.loading = FALSE]

\* await fetch(imageSrc) and response.blob() for a read file: then the POST
\* to /api/search/upload is issued; a throw goes to the catch of the API
\* attempt, which waits 1500 ms.
ReadBlob(i) ==
    /\ inflight[i].caller = "search"
    /\ inflight[i].stage = "blob"
    /\ \E ok \in BOOLEAN :
          inflight' = [inflight EXCEPT ![i].stage = IF ok THEN "api" ELSE "demo"]
    /\ UNCHANGED <<searchVars, serverVars, fetchVars, processorVars, loadVars,
                   previous, seeding, concurrentVars, lifecycleVars, initVars,
                   catalogVars, isSearching, currentResults, previewSrc, shown,
                   clearedSince>>

\* The search call settles: a success response is stored and displayed and
\* the search ends; any failure is thrown to the catch of the API attempt,
\* which waits 1500 ms.
SettleSearch(i) ==
    /\ inflight[i].caller = "search"
    /\ inflight[i].stage = "api"
    /\ \E outcome \in ApiOutcomes, data \in SearchData :
          IF outcome = "ok"
          THEN /\ currentResults' = data
               /\ shown' = SearchEnded([DisplayResults(shown, data)
                                           EXCEPT !.toast = "found"])
               /\ isSearching' = FALSE
               /\ inflight' = Remove(inflight, i)
          ELSE /\ data = <<>>
               /\ inflight' = [inflight EXCEPT ![i].stage = "demo"]
               /\ UNCHANGED <<currentResults, shown, isSearching>>
    /\ UNCHANGED <<searchVars, serverVars, fetchVars, processorVars, loadVars,
                   previous, seeding, concurrentVars, lifecycleVars, initVars,
                   catalogVars, previewSrc, clearedSince>>

\* After the 1500 ms of the catch block: the mock results are stored and
\* displayed with a success toast, and the search ends.
DemoSearch(i) ==
    /\ inflight[i].caller = "search"
    /\ inflight[i].stage = "demo"
    /\ currentResults' = MockResults
    /\ shown' = SearchEnded([DisplayResults(shown, MockResults)
                                EXCEPT !.toast = "demoSearch"])
    /\ isSearching' = FALSE
    /\ inflight' = Remove(inflight, i)
    /\ UNCHANGED <<searchVars, serverVars, fetchVars, processorVars, loadVars,
                   previous, seeding, concurrentVars, lifecycleVars, initVars,
                   catalogVars, previewSrc, clearedSince>>

\* browseCategory(category) up to its await: a toast and the GET.
BrowseCategory ==
    /\ Len(inflight) < MaxInflight
    /\ \E category \in Categories :
          inflight' = Append(inflight, [caller |-> "category", category |-> category,
                                        stage |-> "api"])
    /\ shown' = [shown EXCEPT !.toast = "loadingCategory"]
    /\ clearedSince' = FALSE
    /\ UNCHANGED <<searchVars, serverVars, fetchVars, processorVars, loadVars,
                   previous, seeding, concurrentVars, lifecycleVars, initVars,
                   catalogVars, isSearching, currentResults, previewSrc>>

\* The category call settles: the products of a success response, or on any
\* failure the mock products of the category, are stored and displayed.
SettleCategory(i) ==
    /\ inflight[i].caller = "category"
    /\ \E outcome \in ApiOutcomes, data \in CategoryData :
          LET listed == IF outcome = "ok" THEN AsMatches(data)
                        ELSE GetCategoryMockData(inflight[i].category)
          IN  /\ outcome # "ok" => data = <<>>
              /\ currentResults' = listed
              /\ shown' = IF outcome = "ok" THEN DisplayResults(shown, listed)
                          ELSE [DisplayResults(shown, listed)
                                   EXCEPT !.toast = "demoCategory"]
    /\ inflight' = Remove(inflight, i)
    /\ UNCHANGED <<searchVars, serverVars, fetchVars, processorVars, loadVars,
                   previous, seeding, concurrentVars, lifecycleVars, initVars,
                   catalogVars, isSearching, previewSrc, clearedSince>>

\* updateSimilarityFilter(): displays the results at or above the threshold.
UpdateSimilarityFilter ==
    /\ \E threshold \in {0, 90} :
          shown' = DisplayResults(shown, FilterResults(currentResults, threshold))
    /\ UNCHANGED <<searchVars, serverVars, fetchVars, processorVars, loadVars,
                   previous, seeding, concurrentVars, lifecycleVars, initVars,
                   catalogVars, isSearching, currentResults, previewSrc, inflight,
                   clearedSince>>

\* The page after DOMContentLoaded, in a process that does nothing else.
InitFrontend ==
    /\ FrontendIdle
    /\ redisProducts = <<>>
    /\ redisFeatures = <<>>
    /\ faultsLeft = 0
    /\ SearchIdle
    /\ ServerIdle
    /\ FetchIdle
    /\ invoked = NoCall
    /\ liveTensors = 0
    /\ modelLoads = 0
    /\ searchProcessor = [isInitialized |-> FALSE]
    /\ previous = NoPrevious
    /\ seeding = SeedOff
    /\ ConcurrentIdle
    /\ LifecycleIdle
    /\ InitIdle
    /\ CatalogIdle

\* The search awaited moves on to its next await or to its end.
ResumeSearch ==
    \E i \in DOMAIN inflight : ReadBlob(i) \/ SettleSearch(i) \/ DemoSearch(i)

\* A category call awaited settles.
ResumeCategory == \E i \in DOMAIN inflight : SettleCategory(i)

NextFrontend ==
    \/ DisplayImagePreview
    \/ ClearImage
    \/ PerformSearch
    \/ BrowseCategory
    \/ UpdateSimilarityFilter
    \/ ResumeSearch
    \/ ResumeCategory

SpecFrontend == InitFrontend /\ [][NextFrontend]_vars

\* The browser settles every fetch and fires every timer.
SpecFrontendLive ==
    SpecFrontend /\ WF_vars(ResumeSearch) /\ WF_vars(ResumeCategory)

\* ------------------------------------ an ImageProcessor through its life

\* One ImageProcessor on which initialize(), extractFeatures() and dispose()
\* are called in any order.  `instance` holds this.model ("null", "loaded",
\* or "disposed" once model.dispose() ran), this.isInitialized, and whether
\* the warm-up forward pass has completed.

\* initialize() on the instance p: nothing when isInitialized is set;
\* otherwise the load, which throws or assigns this.model and sets
\* isInitialized, and then the warm-up, which throws or completes.
InitializeInstance(p, outcome) ==
    LET r == Initialize(p, outcome)
    IN  IF p.isInitialized THEN r
        ELSE [r EXCEPT !.processor =
                 [r.processor EXCEPT
                     !.model = IF outcome = "loadFails" THEN p.model ELSE "loaded",
                     !.warmedUp = (outcome = "ok")]]

\* dispose(): if (this.model) this.model.dispose(); no field is reset.
DisposeInstance(p) ==
    IF p.model = "null" THEN p ELSE [p EXCEPT !.model = "disposed"]

\* A call of initialize().
CallInitialize ==
    /\ \E outcome \in InitOutcomes :
         LET r == InitializeInstance(instance, outcome)
         IN  /\ instance.isInitialized => outcome = "ok"
             /\ outcome # "ok" => faultsLeft > 0
             /\ faultsLeft' = IF outcome = "ok" THEN faultsLeft ELSE faultsLeft - 1
             /\ liveTensors + r.leaked <= MaxLiveTensors
             /\ instance' = r.processor
             /\ modelLoads' = modelLoads + r.loads
             /\ liveTensors' = liveTensors + r.leaked
             /\ invoked' = [op |-> "initialize", outcome |-> outcome,
                            initializedBefore |-> instance.isInitialized,
                            loaded |-> r.loads = 1, threw |-> r.threw]
    /\ UNCHANGED <<redisProducts, redisFeatures, pc, products, idx, similarities,
                   queryFeatures, minSimilarity, result, log, serverVars, fetchVars,
                   searchProcessor, previous, seeding, concurrentVars, initVars,
                   catalogVars, frontendVars>>

\* A call of dispose().
CallDispose ==
    /\ instance' = DisposeInstance(instance)
    /\ invoked' = [op |-> "dispose", modelBefore |-> instance.model]
    /\ UNCHANGED <<searchVars, serverVars, fetchVars, liveTensors, loadVars,
                   previous, seeding, concurrentVars, initVars, catalogVars,
                   frontendVars>>

\* A call of extractFeatures(): model.predict throws on a disposed model.
CallExtractOnInstance ==
    /\ \E outcome \in InitOutcomes, failAt \in FailPoints :
         LET init == InitializeInstance(instance, outcome)
             r == ExtractFeaturesCall(revision, instance, FeatureOf("A"),
                                      outcome, failAt)
         IN  /\ instance.isInitialized => outcome = "ok"
             /\ init.threw => failAt = "none"
             /\ (~init.threw /\ init.processor.model # "loaded")
                   => failAt \notin {"none", "data"}
             /\ outcome # "ok" => faultsLeft > 0
             /\ faultsLeft' = IF outcome = "ok" THEN faultsLeft ELSE faultsLeft - 1
             /\ liveTensors + r.leaked <= MaxLiveTensors
             /\ instance' = init.processor
             /\ modelLoads' = modelLoads + r.loads
             /\ liveTensors' = liveTensors + r.leaked
             /\ invoked' = [op |-> "extractFeatures", outcome |-> outcome,
                            initializedBefore |-> instance.isInitialized,
                            modelBefore |-> instance.model, failAt |-> failAt,
                            inferenceRan |-> r.inferenceRan, out |-> r.out]
    /\ UNCHANGED <<redisProducts, redisFeatures, pc, products, idx, similarities,
                   queryFeatures, minSimilarity, result, log, serverVars, fetchVars,
                   searchProcessor, previous, seeding, concurrentVars, initVars,
                   catalogVars, frontendVars>>

\* new ImageProcessor() in a process that does nothing else.
InitLifecycle ==
    /\ instance = NewProcessor
    /\ revision \in Impls
    /\ calls = <<>>
    /\ invoked = NoCall
    /\ liveTensors = 0
    /\ modelLoads = 0
    /\ searchProcessor = [isInitialized |-> FALSE]
    /\ previous = NoPrevious
    /\ seeding = SeedOff
    /\ redisProducts = <<>>
    /\ redisFeatures = <<>>
    /\ faultsLeft = MaxFaults
    /\ SearchIdle
    /\ ServerIdle
    /\ ConcurrentIdle
    /\ InitIdle
    /\ CatalogIdle
    /\ FrontendIdle

NextLifecycle == CallInitialize \/ CallDispose \/ CallExtractOnInstance

SpecLifecycle == InitLifecycle /\ [][NextLifecycle]_vars

\* ------------------------------------- server.js: initializeServices, shared

\* Requests arrive while earlier ones are still inside initializeServices:
\* each call of it runs to its next await, and `handlers` holds, for every
\* request, its endpoint, where its initializeServices call is, and the
\* status it was answered with (0 before the answer).  imageProcessor and
\* productService are the module's two lets.

\* The most requests followed.
MaxRequests == 3

\* The endpoints that await initializeServices.
Endpoints == {"products", "category", "search"}

\* The second if of initializeServices, run by a call that is past the
\* first: the ProductService is created when there is none and its
\* testConnection awaited; otherwise the call returns.
AfterFirstIf(ps) == IF ps.created THEN "returned" ELSE "awaitPing"

\* A request calls initializeServices, which runs to its first await: the
\* ImageProcessor is created when there is none and its initialize()
\* awaited; otherwise the second if is reached at once.
EnterInitializeServices ==
    /\ Len(handlers) < MaxRequests
    /\ \E endpoint \in Endpoints :
        IF ~imageProcessor.created
        THEN /\ imageProcessor' = [created |-> TRUE, isInitialized |-> FALSE]
             /\ handlers' = Append(handlers, [endpoint |-> endpoint, status |-> 0,
                                              pc |-> "awaitInitialize"])
             /\ UNCHANGED productService
        ELSE /\ handlers' = Append(handlers, [endpoint |-> endpoint, status |-> 0,
                                              pc |-> AfterFirstIf(productService)])
             /\ productService' = [created |-> TRUE]
             /\ UNCHANGED imageProcessor
    /\ UNCHANGED <<searchVars, caller, request, response, findCalls, fetchVars,
                   processorVars, loadVars, previous, seeding, concurrentVars,
                   lifecycleVars, connectionTested, catalogVars, frontendVars>>

\* await imageProcessor.initialize() ends: the load throws, or isInitialized
\* is set and the warm-up throws or completes; a call that did not throw
\* goes on to the second if.
ResumeAfterInitialize(h) ==
    /\ handlers[h].pc = "awaitInitialize"
    /\ \E outcome \in InitOutcomes :
         LET r == Initialize(imageProcessor, outcome)
         IN  /\ imageProcessor.isInitialized => outcome = "ok"
             /\ outcome # "ok" => faultsLeft > 0
             /\ faultsLeft' = IF outcome = "ok" THEN faultsLeft ELSE faultsLeft - 1
             /\ imageProcessor' = r.processor
             /\ modelLoads' = modelLoads + r.loads
             /\ liveTensors' = liveTensors + r.leaked
             /\ handlers' = [handlers EXCEPT ![h].pc =
                               IF r.threw THEN "threw"
                               ELSE AfterFirstIf(productService)]
             /\ productService' = IF r.threw THEN productService
                                  ELSE [created |-> TRUE]
    /\ UNCHANGED <<redisProducts, redisFeatures, pc, products, idx, similarities,
                   queryFeatures, minSimilarity, result, log, caller, request,
                   response, findCalls, fetchVars, invoked, searchProcessor,
                   previous, seeding, concurrentVars, lifecycleVars,
                   connectionTested, catalogVars, frontendVars>>

\* await productService.testConnection() ends: the ping answers, or the call
\* throws "Database connection failed".
ResumeAfterPing(h) ==
    /\ handlers[h].pc = "awaitPing"
    /\ \E pingOk \in BOOLEAN :
         /\ ~pingOk => faultsLeft > 0
         /\ faultsLeft' = IF pingOk THEN faultsLeft ELSE faultsLeft - 1
         /\ connectionTested' = (connectionTested \/ pingOk)
         /\ handlers' = [handlers EXCEPT ![h].pc =
                           IF pingOk THEN "returned" ELSE "threw"]
    /\ UNCHANGED <<redisProducts, redisFeatures, pc, products, idx, similarities,
                   queryFeatures, minSimilarity, result, log, serverVars, fetchVars,
                   processorVars, loadVars, previous, seeding, concurrentVars,
                   lifecycleVars, catalogVars, frontendVars>>

\* The endpoint after its initializeServices call: a throw is answered with
\* 500 by the endpoint's catch; otherwise the body runs, which for a search
\* calls extractFeatures on the server's imageProcessor, loading the
\* backbone when isInitialized is still false, and is answered with 200.
Answer(h) ==
    /\ handlers[h].status = 0
    /\ handlers[h].pc \in {"returned", "threw"}
    /\ LET lazy == /\ handlers[h].pc = "returned"
                   /\ handlers[h].endpoint = "search"
                   /\ ~imageProcessor.isInitialized
       IN  /\ handlers' = [handlers EXCEPT ![h].status =
                             IF handlers[h].pc = "threw" THEN 500 ELSE 200]
           /\ imageProcessor' = IF lazy THEN [imageProcessor EXCEPT
                                                 !.isInitialized = TRUE]
                                ELSE imageProcessor
           /\ modelLoads' = IF lazy THEN modelLoads + 1 ELSE modelLoads
    /\ UNCHANGED <<searchVars, caller, request, response, findCalls,
                   productService, fetchVars, processorVars, searchProcessor,
                   previous, seeding, concurrentVars, lifecycleVars,
                   connectionTested, catalogVars, frontendVars>>

\* The module just loaded: both lets are null and no request has arrived.
InitShared ==
    /\ InitIdle
    /\ ServerIdle
    /\ FetchIdle
    /\ SearchIdle
    /\ redisProducts = <<>>
    /\ redisFeatures = <<>>
    /\ faultsLeft \in 0..MaxFaults
    /\ invoked = NoCall
    /\ liveTensors = 0
    /\ modelLoads = 0
    /\ searchProcessor = [isInitialized |-> FALSE]
    /\ previous = NoPrevious
    /\ seeding = SeedOff
    /\ ConcurrentIdle
    /\ LifecycleIdle
    /\ CatalogIdle
    /\ FrontendIdle

\* A request inside or past initializeServices moves on.
ResumeHandler ==
    \E h \in DOMAIN handlers :
        \/ ResumeAfterInitialize(h)
        \/ ResumeAfterPing(h)
        \/ Answer(h)

NextShared == EnterInitializeServices \/ ResumeHandler

SpecShared == InitShared /\ [][NextShared]_vars

\* ------------------------------- ProductService: calls on the catalog, shared

\* getAllProducts, addProduct and clearAllData called while another of them
\* is between two awaits.  A step is one store operation a call awaits with
\* the code that follows it up to the next await.  `catalogCalls` holds, per
\* call: its method and position; its local `products` and loop index; what
\* its first read of the catalog returned; whether it wrote the sample
\* catalog (seeded) or made another write (set); the catalog when it began;
\* the product it adds; and what it returned or threw.

\* The most calls followed.
MaxCalls == 2

CatalogMethods == {"getAllProducts", "addProduct", "clearAllData"}

\* The message of the Error the catch block of a method throws.
CatalogError(method) ==
    CASE method = "getAllProducts" -> <<"Failed to fetch products from database">>
      [] method = "addProduct" -> <<"Failed to add product to database">>
      [] OTHER -> <<"Failed to clear product data">>

\* A product addProduct makes: its id, from Date.now() and Math.random(), is
\* one no other product has.
NewProduct(n) == Product(SampleCount + n + 1, "A")

NoProduct == [id |-> 0]

NewCatalogCall(method, catalog) ==
    [method |-> method, pc |-> IF method = "clearAllData" THEN "del" ELSE "get",
     products |-> <<>>, idx |-> 1, read |-> <<>>, seeded |-> FALSE, set |-> FALSE,
     before |-> catalog, added |-> NoProduct, result |-> NoResult]

\* A store operation of call c failed: every method catches and throws its
\* own Error.
CatalogThrow(c) ==
    [c EXCEPT !.result = Threw(CatalogError(c.method)), !.pc = "done"]

\* The call after its getAllProducts returned `list` (<<>> for null or an
\* empty list): getAllProducts returns it; addProduct pushes its new product
\* onto (list || []); clearAllData starts its loop over it.
AfterGetAllProducts(c, list, n) ==
    CASE c.method = "getAllProducts" ->
            [c EXCEPT !.result = Returned(list), !.pc = "done"]
      [] c.method = "addProduct" ->
            [c EXCEPT !.products = Append(list, NewProduct(n)),
                      !.added = NewProduct(n), !.pc = "set"]
      [] OTHER ->
            IF list = <<>>
            THEN [c EXCEPT !.result = Returned(<<>>), !.pc = "done"]
            ELSE [c EXCEPT !.products = list, !.idx = 1, !.pc = "clear"]

\* A getAllProducts that seeds whatever it read.
FindsNoProductsAlways(list) == TRUE

\* if (!products || products.length === 0)
FindsNoProducts(list) == list = <<>>

\* redis.del("features:" + id)
DeleteFeatures(store, id) ==
    [i \in DOMAIN store |-> IF i = id THEN Null ELSE store[i]]

\* A call is made.  clearAllData is the seeding script's, of which one runs.
StartCatalogCall ==
    /\ Len(catalogCalls) < MaxCalls
    /\ \E method \in CatalogMethods :
          /\ method = "clearAllData" =>
                \A c \in DOMAIN catalogCalls : catalogCalls[c].method # method
          /\ catalogCalls' = Append(catalogCalls, NewCatalogCall(method, redisProducts))
    /\ UNCHANGED <<searchVars, serverVars, fetchVars, processorVars, loadVars,
                   previous, seeding, concurrentVars, lifecycleVars, initVars,
                   nextId, frontendVars>>

\* getAllProducts: await this.redis.get(this.productsKey).  A catalog that
\* is there is returned; none or an empty one leads to the seeding.
GetCatalog(c) ==
    /\ catalogCalls[c].pc = "get"
    /\ \E readOk \in BOOLEAN :
        LET call == [catalogCalls[c] EXCEPT !.read = redisProducts]
            seeds == readOk /\ FindsNoProducts(redisProducts)
            adds == readOk /\ ~seeds /\ call.method = "addProduct"
        IN  /\ ~readOk => faultsLeft > 0
            /\ faultsLeft' = IF readOk THEN faultsLeft ELSE faultsLeft - 1
            /\ catalogCalls' = [catalogCalls EXCEPT ![c] =
                  IF ~readOk THEN CatalogThrow(catalogCalls[c])
                  ELSE IF seeds THEN [call EXCEPT !.pc = "seed"]
                  ELSE AfterGetAllProducts(call, redisProducts, nextId)]
            /\ nextId' = IF adds THEN nextId + 1 ELSE nextId
    /\ UNCHANGED <<redisProducts, redisFeatures, pc, products, idx, similarities,
                   queryFeatures, minSimilarity, result, log, serverVars, fetchVars,
                   processorVars, loadVars, previous, seeding, concurrentVars,
                   lifecycleVars, initVars, frontendVars>>

\* getAllProducts: await this.initializeSampleProducts(), which sets the
\* catalog key to the literal list.
SeedCatalog(c) ==
    /\ catalogCalls[c].pc = "seed"
    /\ \E writeOk \in BOOLEAN :
        LET call == catalogCalls[c]
        IN  /\ ~writeOk => faultsLeft > 0
            /\ faultsLeft' = IF writeOk THEN faultsLeft ELSE faultsLeft - 1
            /\ redisProducts' = IF writeOk THEN SampleProducts ELSE redisProducts
            /\ catalogCalls' = [catalogCalls EXCEPT ![c] =
                  IF writeOk THEN [call EXCEPT !.seeded = TRUE, !.pc = "reget"]
                  ELSE CatalogThrow(call)]
    /\ UNCHANGED <<redisFeatures, pc, products, idx, similarities,
                   queryFeatures, minSimilarity, result, log, serverVars, fetchVars,
                   processorVars, loadVars, previous, seeding, concurrentVars,
                   lifecycleVars, initVars, nextId, frontendVars>>

\* getAllProducts: return await this.redis.get(this.productsKey), after the
\* seeding.
RegetCatalog(c) ==
    /\ catalogCalls[c].pc = "reget"
    /\ \E readOk \in BOOLEAN :
        LET call == catalogCalls[c]
            adds == readOk /\ call.method = "addProduct"
        IN  /\ ~readOk => faultsLeft > 0
            /\ faultsLeft' = IF readOk THEN faultsLeft ELSE faultsLeft - 1
            /\ catalogCalls' = [catalogCalls EXCEPT ![c] =
                  IF readOk THEN AfterGetAllProducts(call, redisProducts, nextId)
                  ELSE CatalogThrow(call)]
            /\ nextId' = IF adds THEN nextId + 1 ELSE nextId
    /\ UNCHANGED <<redisProducts, redisFeatures, pc, products, idx, similarities,
                   queryFeatures, minSimilarity, result, log, serverVars, fetchVars,
                   processorVars, loadVars, previous, seeding, concurrentVars,
                   lifecycleVars, initVars, frontendVars>>

\* addProduct: await this.redis.set(this.productsKey, products), the list it
\* read with its product pushed; then it returns the product.
SetCatalog(c) ==
    /\ catalogCalls[c].pc = "set"
    /\ \E writeOk \in BOOLEAN :
        LET call == catalogCalls[c]
        IN  /\ ~writeOk => faultsLeft > 0
            /\ faultsLeft' = IF writeOk THEN faultsLeft ELSE faultsLeft - 1
            /\ redisProducts' = IF writeOk THEN call.products ELSE redisProducts
            /\ catalogCalls' = [catalogCalls EXCEPT ![c] =
                  IF writeOk THEN [call EXCEPT !.set = TRUE, !.pc = "done",
                                               !.result = Returned(<<call.added>>)]
                  ELSE CatalogThrow(call)]
    /\ UNCHANGED <<redisFeatures, pc, products, idx, similarities,
                   queryFeatures, minSimilarity, result, log, serverVars, fetchVars,
                   processorVars, loadVars, previous, seeding, concurrentVars,
                   lifecycleVars, initVars, nextId, frontendVars>>

\* clearAllData: await this.redis.del(this.productsKey); then it calls
\* getAllProducts.
DelCatalog(c) ==
    /\ catalogCalls[c].pc = "del"
    /\ \E writeOk \in BOOLEAN :
        LET call == catalogCalls[c]
        IN  /\ ~writeOk => faultsLeft > 0
            /\ faultsLeft' = IF writeOk THEN faultsLeft ELSE faultsLeft - 1
            /\ redisProducts' = IF writeOk THEN <<>> ELSE redisProducts
            /\ catalogCalls' = [catalogCalls EXCEPT ![c] =
                  IF writeOk THEN [call EXCEPT !.set = TRUE, !.pc = "get"]
                  ELSE CatalogThrow(call)]
    /\ UNCHANGED <<redisFeatures, pc, products, idx, similarities,
                   queryFeatures, minSimilarity, result, log, serverVars, fetchVars,
                   processorVars, loadVars, previous, seeding, concurrentVars,
                   lifecycleVars, initVars, nextId, frontendVars>>

\* clearAllData: one pass of its loop, await this.redis.del of the features
\* entry of a product getAllProducts returned; after the last pass it
\* returns.  A failure is injected into the first or the last pass.
DelFeatures(c) ==
    /\ catalogCalls[c].pc = "clear"
    /\ \E writeOk \in BOOLEAN :
        LET call == catalogCalls[c]
            last == call.idx = Len(call.products)
        IN  /\ ~writeOk => faultsLeft > 0 /\ (call.idx = 1 \/ last)
            /\ faultsLeft' = IF writeOk THEN faultsLeft ELSE faultsLeft - 1
            /\ redisFeatures' = IF writeOk
                                THEN DeleteFeatures(redisFeatures,
                                                    call.products[call.idx].id)
                                ELSE redisFeatures
            /\ catalogCalls' = [catalogCalls EXCEPT ![c] =
                  IF ~writeOk THEN CatalogThrow(call)
                  ELSE IF last THEN [call EXCEPT !.idx = call.idx + 1, !.pc = "done",
                                                 !.result = Returned(<<>>)]
                  ELSE [call EXCEPT !.idx = call.idx + 1]]
    /\ UNCHANGED <<redisProducts, pc, products, idx, similarities,
                   queryFeatures, minSimilarity, result, log, serverVars, fetchVars,
                   processorVars, loadVars, previous, seeding, concurrentVars,
                   lifecycleVars, initVars, nextId, frontendVars>>

\* Stores the calls are made on: none, the sample catalog, the sample catalog
\* with a product added, and a small catalog; each with the vectors of its
\* products cached.
SharedCatalogs ==
    {<<>>, SampleProducts, Append(SampleProducts, NewProduct(0)),
     Catalog(0, <<"A", "D">>)}

InitCatalog ==
    /\ redisProducts \in SharedCatalogs
    /\ redisFeatures = WarmCache(redisProducts)
    /\ catalogCalls = <<>>
    /\ nextId = IF Len(redisProducts) > SampleCount THEN 1 ELSE 0
    /\ faultsLeft \in {0, MaxFaults}
    /\ SearchIdle
    /\ ServerIdle
    /\ FetchIdle
    /\ invoked = NoCall
    /\ liveTensors = 0
    /\ modelLoads = 0
    /\ searchProcessor = [isInitialized |-> FALSE]
    /\ previous = NoPrevious
    /\ seeding = SeedOff
    /\ ConcurrentIdle
    /\ LifecycleIdle
    /\ InitIdle
    /\ FrontendIdle

\* A catalog call moves on to its next await or to its end.
ResumeCatalogCall ==
    \E c \in DOMAIN catalogCalls :
        \/ GetCatalog(c)
        \/ SeedCatalog(c)
        \/ RegetCatalog(c)
        \/ SetCatalog(c)
        \/ DelCatalog(c)
        \/ DelFeatures(c)

NextCatalog == StartCatalogCall \/ ResumeCatalogCall

SpecCatalog == InitCatalog /\ [][NextCatalog]_vars

\* =================================================================== claims

Finished == pc = "done" /\ result.kind = "returned"

\* The ids of the results in a list.
IdsOf(list) == {list[i].id : i \in 1..Len(list)}

\* The product the loop reached i-th is qualifying: the call had a vector for
\* it, scoring it raised no error and its raw score is at least minSimilarity.
Qualifying(i) ==
    /\ log[i].features # Null
    /\ Len(log[i].features) = Len(queryFeatures)
    /\ AtLeast(log[i].score, minSimilarity)

QualifyingIds == {log[i].id : i \in {j \in 1..Len(log) : Qualifying(j)}}

\* Processing the i-th product raised an error: no vector could be had, or
\* the vector cannot be scored against the query.
PerProductError(i) ==
    \/ log[i].features = Null
    \/ Len(log[i].features) # Len(queryFeatures)

\* C1: the list findSimilarProducts returns has at most 20 entries, whatever
\* the catalog, the cache, minSimilarity and the failures.
C1_AtMostTwenty == result.kind = "returned" => Len(result.list) <= 20

\* C1 witness: more than 20 products were retained and 20 were returned.
C1_Witness ==
    /\ Finished
    /\ Len(similarities) > 20
    /\ Len(result.list) = 20

\* C2 as stated: every returned result's 2-decimal similarity field is at
\* least minSimilarity, for every minSimilarity.
C2_FieldAtLeastMin ==
    result.kind = "returned" =>
        \A i \in 1..Len(result.list) : result.list[i].similarity * 10 >= minSimilarity

\* C2 amended: every returned result's raw cosine score is at least
\* minSimilarity and its 2-decimal similarity field is at least minSimilarity
\* rounded to two decimals, so the field is at least minSimilarity whenever
\* minSimilarity has at most two decimals.
C2_FieldAtLeastRoundedMin ==
    result.kind = "returned" =>
        \A i \in 1..Len(result.list) :
            LET r == result.list[i]
            IN  /\ \E j \in 1..Len(log) :
                      log[j].id = r.id /\ ~log[j].score.threw
                      /\ AtLeast(log[j].score, minSimilarity)
                /\ r.similarity >= (minSimilarity + 5) \div 10
                /\ minSimilarity % 10 = 0 => r.similarity * 10 >= minSimilarity

\* C2 witness: a search with a three-decimal minSimilarity returned a result
\* whose field is below it.
C2_Witness ==
    /\ Finished
    /\ minSimilarity = 992
    /\ \E i \in 1..Len(result.list) : result.list[i].similarity * 10 < minSimilarity

\* C3: the returned list is ordered non-increasing by the similarity field.
C3_SortedDescending ==
    result.kind = "returned" =>
        \A i \in 1..(Len(result.list) - 1) :
            result.list[i].similarity >= result.list[i + 1].similarity

\* C3 witness: a returned list in which a product the loop reached later
\* stands before one it reached earlier, with a higher similarity.
C3_Witness ==
    /\ Finished
    /\ \E i \in 1..(Len(result.list) - 1) :
          /\ result.list[i].similarity > result.list[i + 1].similarity
          /\ result.list[i].id > result.list[i + 1].id

\* C4: an error raised while one product is processed leaves out exactly that
\* product: the call throws only before the loop, every product of the catalog
\* is processed, a product with an error is not retained, and a product
\* without one that scores at least minSimilarity is retained.
C4_ErrorSkipsOnlyThatProduct ==
    /\ result.kind = "threw" => log = <<>> /\ products = <<>>
    /\ Finished =>
        /\ Len(log) = Len(products)
        /\ \A i \in 1..Len(products) :
              /\ log[i].id = products[i].id
              /\ PerProductError(i) => products[i].id \notin IdsOf(similarities)
              /\ (~PerProductError(i)
                  /\ AtLeast(CosineSimilarity(queryFeatures, log[i].features),
                             minSimilarity))
                 => products[i].id \in IdsOf(similarities)

\* C4 witness: scoring one product raised an error (a cached vector of another
\* length), a product after it was retained and the call returned.
C4_Witness ==
    /\ Finished
    /\ \E i \in 1..Len(log) : \E j \in (i + 1)..Len(log) :
          /\ log[i].features # Null
          /\ Len(log[i].features) # Len(queryFeatures)
          /\ log[j].kept
          /\ log[j].id \in IdsOf(result.list)

\* The raw score of the product with this id.
RawOf(id) == log[CHOOSE j \in 1..Len(log) : log[j].id = id].score

\* The returned results are qualifying products, and all of them when at most
\* 20 qualify.
ReturnsQualifying ==
    /\ IdsOf(result.list) \subseteq QualifyingIds
    /\ Cardinality(QualifyingIds) <= 20 => IdsOf(result.list) = QualifyingIds

\* C5 as stated: the result is the top 20 of the qualifying set by raw score:
\* no omitted qualifying product has a strictly higher raw score than a
\* returned one.
C5_TopTwentyByRawScore ==
    Finished =>
        /\ ReturnsQualifying
        /\ \A o \in QualifyingIds \ IdsOf(result.list) :
              \A r \in IdsOf(result.list) : ~RawGreater(RawOf(o), RawOf(r))

\* C5 amended: the result is the top 20 of the qualifying set by the
\* 2-decimal similarity: when at most 20 qualify it holds exactly those, else
\* no omitted qualifying product has a strictly higher rounded similarity
\* than a returned one; among equal rounded similarities the catalog order
\* decides the order and, at the cut, which products are returned.
C5_TopTwentyByRoundedScore ==
    Finished =>
        /\ ReturnsQualifying
        /\ \A o \in QualifyingIds \ IdsOf(result.list) :
              \A i \in 1..Len(result.list) :
                  LET r == result.list[i]
                  IN  /\ RoundPercent(RawOf(o)) <= r.similarity
                      /\ RoundPercent(RawOf(o)) = r.similarity => r.id < o
        /\ \A i \in 1..(Len(result.list) - 1) :
              result.list[i].similarity = result.list[i + 1].similarity
                 => result.list[i].id < result.list[i + 1].id

\* C5 witness: more than 20 products qualified, and a qualifying product with
\* a strictly higher raw score than a returned one was omitted.
C5_Witness ==
    /\ Finished
    /\ Cardinality(QualifyingIds) > 20
    /\ \E o \in QualifyingIds \ IdsOf(result.list) :
          \E r \in IdsOf(result.list) : RawGreater(RawOf(o), RawOf(r))

\* C6 as stated: for a product whose vector is in the store when the loop
\* reaches it, the search does no fetch, no extraction and no store write.
C6_PresentMeansNoWork ==
    \A i \in 1..Len(log) :
        log[i].cached # Null =>
            ~log[i].fetched /\ ~log[i].extracted /\ ~log[i].wrote

\* C6 amended: for a product whose cached vector getProductFeatures returns
\* (the entry is in the store and the read succeeds), the search does no
\* fetch, no extraction and no store write and scores the cached vector; a
\* product whose read fails is handled as a cache miss.
C6_ReadMeansNoWork ==
    \A i \in 1..Len(log) :
        /\ log[i].got # Null =>
              /\ ~log[i].fetched /\ ~log[i].extracted /\ ~log[i].wrote
              /\ log[i].features = log[i].cached
        /\ log[i].got = Null => log[i].fetched

\* C6 witness: a product's cached vector was read and scored, and the store
\* still holds it.
C6_Witness ==
    /\ Finished
    /\ \E i \in 1..Len(log) :
          /\ log[i].got # Null
          /\ log[i].kept
          /\ StoredFeatures(redisFeatures, log[i].id) = log[i].got

\* C7: when the store write of a freshly extracted vector fails, the search
\* does not fail: the product is scored with that vector in this call and the
\* products after it are processed.
C7_WriteFailureTolerated ==
    (pc = "done" /\ \E i \in 1..Len(log) : log[i].wrote /\ ~log[i].stored) =>
        /\ result.kind = "returned"
        /\ Len(log) = Len(products)
        /\ \A i \in 1..Len(log) :
              (log[i].wrote /\ ~log[i].stored) =>
                  /\ log[i].features = log[i].extractedFeatures
                  /\ log[i].features # Null
                  /\ ~log[i].score.threw
                  /\ AtLeast(log[i].score, minSimilarity)
                        => log[i].id \in IdsOf(similarities)

\* C7 witness: a write failed for a product that is in the returned list, the
\* store holds no vector for it, and a later product was returned too.
C7_Witness ==
    /\ Finished
    /\ \E i \in 1..Len(log) : \E j \in (i + 1)..Len(log) :
          /\ log[i].wrote /\ ~log[i].stored
          /\ log[i].id \in IdsOf(result.list)
          /\ StoredFeatures(redisFeatures, log[i].id) = Null
          /\ log[j].id \in IdsOf(result.list)

\* The current request got as far as extracting the query image, and the
\* extraction threw.
ExtractionFailed == request.kind \in {"upload", "url"} /\ request.extractFailed

\* C8: when the extraction of the query image fails in a search request, the
\* request ends in a failure response that carries the error's message,
\* findSimilarProducts is not invoked for the request, and no product list is
\* returned.
C8_ExtractionFailureEndsRequest ==
    ExtractionFailed =>
        /\ pc = "done"
        /\ request.extractMessage # <<>>
        /\ response = FailureResponse(500, <<ErrorPrefix(request.kind)>>
                                           \o request.extractMessage)
        /\ ~response.success /\ ~response.hasData
        /\ findCalls = 0
        /\ result = NoResult

\* A URL request whose download is a GIF, answered 500, on a server that has
\* both services up.
C8_Witness ==
    /\ ExtractionFailed
    /\ request.kind = "url"
    /\ request.input.net = "ok" /\ request.input.format = "gif"
    /\ productService.created
    /\ response.status = 500

\* The failure class of a call of extractFeaturesFromUrl that failed: what
\* the network did, or the download was turned away before extractFeatures.
FailureClass(call) ==
    CASE call.net = "ENOTFOUND" -> "host unresolvable"
      [] call.net = "ECONNREFUSED" -> "connection refused"
      [] call.net = "HTTP404" -> "HTTP 404"
      [] call.net = "HTTP403" -> "HTTP 403"
      [] call.net = "ECONNABORTED" -> "timeout"
      [] call.net = "ok" /\ ~call.out.extractCalled -> "image content"
      [] OTHER -> "other"

\* C9: every failure class of extractFeaturesFromUrl has its own message: two
\* failed calls of different classes never carry the same message.
C9_DistinctMessagePerClass ==
    \A i, j \in 1..Len(calls) :
        (/\ ~calls[i].out.ok /\ ~calls[j].out.ok
         /\ FailureClass(calls[i]) # FailureClass(calls[j]))
        => calls[i].out.message # calls[j].out.message

\* The formats outside the allow-list written in each revision.
Unlisted(impl) ==
    IF impl = "server" THEN {"gif", "tiff", "heif"} ELSE {"heif"}

RECURSIVE SumBuckets(_, _, _)
SumBuckets(h, lo, hi) ==
    IF lo > hi THEN 0
    ELSE IF lo = hi THEN h[lo]
    ELSE LET mid == (lo + hi) \div 2
         IN  SumBuckets(h, lo, mid) + SumBuckets(h, mid + 1, hi)

\* The last direct call was extractColorHistogram and the image decoded.
HistogramReturned ==
    invoked.op = "extractColorHistogram" /\ invoked.out # Null

\* C11: for every image extractColorHistogram decodes, with or without an
\* alpha channel, each channel has 256 buckets whose counts add up to
\* width x height, so that the normalised buckets sum to 1.
C11_ChannelsSumToOne ==
    HistogramReturned =>
        \A c \in {"r", "g", "b"} :
            /\ DOMAIN invoked.out[c] = 0..255
            /\ SumBuckets(invoked.out[c], 0, 255) = invoked.out.totalPixels

\* The last direct call was calculateEnhancedSimilarity and it returned.
BlendReturned ==
    invoked.op = "calculateEnhancedSimilarity" /\ ~invoked.out.threw

\* The cosine of two of the vectors tried, as a fraction.
CosineOf(a, b) ==
    LET dot == SumProducts(a, b, 1)
        n2 == SumProducts(a, a, 1) * SumProducts(b, b, 1)
    IN  IF n2 = 0 THEN Frac(0, 1) ELSE Frac(dot, Root(n2, 0, n2))

\* C12: calculateEnhancedSimilarity returns 0.8 x cosine(features1,
\* features2) + 0.2 x c, c the unweighted mean of the three channel cosines
\* when both histograms are given and 0 when one is absent: 15 x result =
\* 12 x cosine + rSim + gSim + bSim, and 5 x result = 4 x cosine.
C12_EnhancedSimilarityBlend ==
    BlendReturned =>
        LET fs == CosineOf(invoked.features1, invoked.features2)
            h1 == invoked.histogram1
            h2 == invoked.histogram2
        IN  IF h1 # Null /\ h2 # Null
            THEN FracEq(FracMul(invoked.out.value, Frac(15, 1)),
                        FracAdd(FracMul(fs, Frac(12, 1)),
                                FracAdd(CosineOf(h1.r, h2.r),
                                        FracAdd(CosineOf(h1.g, h2.g),
                                                CosineOf(h1.b, h2.b)))))
            ELSE FracEq(FracMul(invoked.out.value, Frac(5, 1)),
                        FracMul(fs, Frac(4, 1)))

\* Features with cosine 24/25 and channels with cosines 3/5, 0 and 1 were
\* blended: 0.8 x 24/25 + 0.2 x 8/15 = 656/750.
C12_Witness ==
    /\ BlendReturned
    /\ invoked.features1 = <<3, 4>> /\ invoked.features2 = <<4, 3>>
    /\ invoked.histogram1 = [r |-> <<1, 0>>, g |-> <<1, 0>>, b |-> <<1, 0>>]
    /\ invoked.histogram2 = [r |-> <<3, 4>>, g |-> <<0, 1>>, b |-> <<1, 0>>]
    /\ FracEq(invoked.out.value, Frac(656, 750))

\* The last direct call was cosineSimilarity(a, b).
CosineCalled == invoked.op = "cosineSimilarity"

\* C13: cosineSimilarity on vectors of different lengths throws and gives no
\* number; the shorter vector is never read as padded with zeros.
C13_UnequalLengthsThrow ==
    (CosineCalled /\ Len(invoked.a) # Len(invoked.b)) => invoked.out = Throws

\* A call on <<1>> and <<1, 0>>, which zero padding would score 1.
C13_Witness ==
    /\ CosineCalled
    /\ invoked.a = <<1>> /\ invoked.b = <<1, 0>>
    /\ invoked.out.threw

IsZero(v) == \A i \in 1..Len(v) : v[i] = 0

\* C14: cosineSimilarity on vectors of equal length of which one is all
\* zeros returns 0, and no call divides by a zero norm product.
C14_ZeroNormGivesZero ==
    CosineCalled =>
        /\ ~invoked.out.threw => invoked.out.den2 > 0
        /\ (Len(invoked.a) = Len(invoked.b) /\ (IsZero(invoked.a) \/ IsZero(invoked.b)))
           => (~invoked.out.threw /\ invoked.out.num = 0)

\* A zero vector was scored against a non-zero one.
C14_Witness ==
    /\ CosineCalled
    /\ invoked.a = <<0, 0>> /\ invoked.b = <<1, 2>>
    /\ ~invoked.out.threw /\ invoked.out.num = 0

\* C15: cosineSimilarity(A, kA) is 1 for every non-zero A and positive k:
\* the dot product is positive and its square is |A|^2 |kA|^2.
C15_ScalarMultipleGivesOne ==
    (CosineCalled /\ ~IsZero(invoked.a)
        /\ \E k \in 1..MaxScale : invoked.b = Scaled(invoked.a, k))
    => /\ ~invoked.out.threw
       /\ invoked.out.num > 0
       /\ invoked.out.num * invoked.out.num = invoked.out.den2

\* A vector with a negative component was scored against its double.
C15_Witness ==
    /\ CosineCalled
    /\ invoked.a = <<-1, 2>> /\ invoked.b = <<-2, 4>>
    /\ invoked.out.num * invoked.out.num = invoked.out.den2

\* The second of two successive calls has ended.
SecondCallEnded == previous # NoPrevious /\ pc = "done"

\* The first call returned, and found a stored vector for every product.
WarmAtFirstCall ==
    /\ previous.result.kind = "returned"
    /\ Len(previous.log) = Len(redisProducts)
    /\ \A j \in 1..Len(previous.log) : previous.log[j].cached # Null

C17_ModelLoadedAtMostOnce == modelLoads <= 1

\* The last direct call was extractFeatures.
ExtractCalled == invoked.op = "extractFeatures"

\* C18: extractFeatures called on a processor whose initialization has not
\* completed fails and runs no inference in that call.
C18_UninitializedFails ==
    (ExtractCalled /\ ~invoked.initializedBefore)
    => (~invoked.out.ok /\ ~invoked.inferenceRan)

\* C19: when a call of extractFeatures ends, returning or throwing, as many
\* tensors are live as before it.
C19_TensorsDisposed ==
    ExtractCalled => invoked.liveAfter = invoked.liveBefore

\* The value under features:<id>, Null when there is none.
EntryOf(store, id) == IF id \in DOMAIN store THEN store[id] ELSE Null

\* The ids under which either of two stores holds something.
StoredIds(old, new) == {id \in DOMAIN old \cup DOMAIN new :
                           EntryOf(old, id) # Null \/ EntryOf(new, id) # Null}

\* The step is a pass of findSimilarProducts' loop, a pass of the seeding
\* script's loop, or the script's clearAllData call.
SearchPass == pc = "loop" /\ idx' = idx + 1
SeedPass == seeding.pc = "loop" /\ seeding'.pc = "loop" /\ seeding'.idx = seeding.idx + 1
ClearCall == seeding.pc = "clear" /\ seeding'.pc # "clear"

\* C20: the cache-miss branch of findSimilarProducts is the only path that
\* changes a features:<id> entry, and an entry once stored is never removed
\* or replaced.
C20_OnlyCacheMissMutates ==
    [][\A id \in StoredIds(redisFeatures, redisFeatures') :
          /\ EntryOf(redisFeatures', id) # EntryOf(redisFeatures, id)
             => (SearchPass /\ log'[Len(log')].id = id /\ log'[Len(log')].stored)
          /\ EntryOf(redisFeatures, id) # Null
             => EntryOf(redisFeatures', id) = EntryOf(redisFeatures, id)]_vars

\* C20, amended: an entry changes only in a cache-miss pass of
\* findSimilarProducts, in a pass of the seeding script's loop, or in the
\* script's clearAllData call, and only clearAllData removes an entry.
C20_MutationPaths ==
    [][\A id \in StoredIds(redisFeatures, redisFeatures') :
          /\ EntryOf(redisFeatures', id) # EntryOf(redisFeatures, id)
             => \/ SearchPass /\ log'[Len(log')].id = id /\ log'[Len(log')].stored
                \/ SeedPass /\ seeding.products[seeding.idx].id = id
                \/ ClearCall
          /\ (EntryOf(redisFeatures, id) # Null /\ EntryOf(redisFeatures', id) = Null)
             => ClearCall]_vars

\* The script has run to its end on a store seeded before: clearAllData
\* removed the old entries, the loop stored all but one, and the cache-miss
\* branch of the closing search stored that one.
C20_Witness ==
    /\ seeding = SeedExited
    /\ result.kind = "returned"
    /\ \E j \in 1..Len(log) : log[j].stored
    /\ \A i \in 1..SampleCount : EntryOf(redisFeatures, i) # Null

\* The i-th pass found no vector cached for its product, and its fetch, its
\* extraction and its store write all went through.
MissFilled(i) ==
    /\ log[i].cached = Null
    /\ log[i].fetched
    /\ log[i].extractedFeatures # Null
    /\ log[i].stored

\* C21: when findSimilarProducts has completed, every product that had no
\* cached vector when the loop reached it, and whose fetch, extraction and
\* store write succeeded, has under its key exactly the vector extracted from
\* its image URL, which is also the vector the call scored.
C21_MissLeavesExtractedVector ==
    pc = "done" =>
        \A i \in 1..Len(log) :
            MissFilled(i) =>
                /\ StoredFeatures(redisFeatures, log[i].id) = log[i].extractedFeatures
                /\ log[i].extractedFeatures = FeatureOf(products[i].imageUrl)
                /\ log[i].features = log[i].extractedFeatures

\* C21 witness: a search on a cold cache returned, two products of different
\* images were extracted and stored, and one of them is in the list.
C21_Witness ==
    /\ Finished
    /\ \E i, j \in 1..Len(log) :
          /\ MissFilled(i) /\ MissFilled(j)
          /\ products[i].imageUrl # products[j].imageUrl
          /\ log[i].id \in IdsOf(result.list)
          /\ StoredFeatures(redisFeatures, log[i].id) = FeatureOf(products[i].imageUrl)

\* Both calls running side by side have ended.
BothEnded == searches # <<>> /\ \A k \in CallIds : searches[k].pc = "done"

\* Both calls found no entry for the product they reached i-th.
BothMissed(i) ==
    \A k \in CallIds :
        /\ i <= Len(searches[k].log)
        /\ searches[k].log[i].cached = Null
        /\ searches[k].log[i].got = Null

\* What a single call with the arguments of call k, alone and undisturbed,
\* makes of the catalog and of the cache the two calls started from.
Alone(k) ==
    SoloSearch(redisProducts, cacheAtStart, searches[k].queryFeatures,
               searches[k].minSimilarity)

\* C22: when two interleaved findSimilarProducts calls both find a product's
\* entry missing, each does its own fetch and, once it has the vector, its
\* own store write; the entry left for the product is the one a single
\* sequential call would have stored; and when no read, fetch or write fails,
\* each call returns the list it would have returned running alone.
C22_ConcurrentMissesIndependent ==
    BothEnded =>
        /\ \A i \in 1..Len(redisProducts) :
              BothMissed(i) =>
                  /\ \A k \in CallIds :
                        /\ searches[k].log[i].fetched
                        /\ searches[k].log[i].extractedFeatures # Null
                              => searches[k].log[i].wrote
                  /\ (\E k \in CallIds : searches[k].log[i].stored)
                        => StoredFeatures(redisFeatures, redisProducts[i].id)
                               = StoredFeatures(Alone(1).store, redisProducts[i].id)
        /\ faultsLeft = MaxFaults =>
              /\ \A k \in CallIds : searches[k].result = Alone(k).result
              /\ redisFeatures = Alone(1).store

\* C22 witness: both calls missed the same product before either had stored
\* it, both wrote it, both returned it, and the entry is its vector.
C22_Witness ==
    /\ BothEnded
    /\ \E i \in 1..Len(redisProducts) :
          /\ BothMissed(i)
          /\ \A k \in CallIds :
                /\ searches[k].log[i].stored
                /\ searches[k].result.kind = "returned"
                /\ redisProducts[i].id \in IdsOf(searches[k].result.list)
          /\ StoredFeatures(redisFeatures, redisProducts[i].id)
                = FeatureOf(redisProducts[i].imageUrl)

\* The search calls the page awaits.
SearchesInFlight == {i \in DOMAIN inflight : inflight[i].caller = "search"}

\* Product cards are on display.
ProductsDisplayed == shown.section /\ shown.grid # <<>>

\* The step ends the search whose API call failed: the call awaited in the
\* catch of the API attempt leaves inflight.
FailedSearchEnds ==
    \E i \in DOMAIN inflight :
        /\ inflight[i].caller = "search"
        /\ inflight[i].stage = "demo"
        /\ inflight' = Remove(inflight, i)

\* C23: when the search API call fails (a status that is not OK, a network
\* error, or a body with success = false), performSearch ends with a failure
\* shown to the user, no product on display and currentResults empty.
C23_ApiFailureShowsNoProducts ==
    [][FailedSearchEnds =>
          /\ currentResults' = <<>>
          /\ ~ProductsDisplayed'
          /\ shown'.toast = "searchFailed"]_vars

\* C29: at most one search started by performSearch is awaited at any time,
\* and isSearching is true exactly while one is; while isSearching is true no
\* step starts another search call; and isSearching, once true, becomes
\* false again when the browser settles the calls and fires the timer.
C29_OneSearchAtATime ==
    /\ [](/\ Cardinality(SearchesInFlight) <= 1
          /\ isSearching <=> SearchesInFlight # {})
    /\ [][isSearching => Len(inflight') <= Len(inflight)
                            \/ inflight'[Len(inflight')].caller # "search"]_vars
    /\ (isSearching ~> ~isSearching)

\* C29 witness: the search button was clicked on a loaded image and the
\* call is awaited, along with a category call.
C29_Witness ==
    /\ isSearching
    /\ Cardinality(SearchesInFlight) = 1
    /\ Len(inflight) = 2
    /\ previewSrc # ""

\* C30: after clearImage, and until the user starts a search or a category
\* browse, currentResults is empty and no product is on display, also when a
\* call that was awaited at the time of clearImage settles.
C30_ClearedStaysEmpty ==
    clearedSince => (currentResults = <<>> /\ ~ProductsDisplayed)

\* C24: in every state of an ImageProcessor, isInitialized = true implies
\* that the model is loaded, that its warm-up pass completed, and that the
\* model has not been disposed.
C24_InitializedMeansUsable ==
    instance.isInitialized => (instance.model = "loaded" /\ instance.warmedUp)

\* C25: a call of initializeServices has returned normally only if the
\* server's imageProcessor is initialized and a testConnection call has
\* succeeded in this process, whatever calls threw before it or are still
\* in progress.
C25_ReturnMeansReady ==
    \A h \in DOMAIN handlers :
        handlers[h].pc = "returned" =>
            (imageProcessor.isInitialized /\ connectionTested)

\* The catalog call c has returned.
CatalogReturned(c) == catalogCalls[c].result.kind = "returned"

\* C26: after clearAllData has completed without error, running alone, the
\* catalog key is absent and no features entry remains for any product that
\* was in the catalog before the call.
C26_ClearLeavesNothing ==
    (/\ Len(catalogCalls) = 1
     /\ catalogCalls[1].method = "clearAllData"
     /\ CatalogReturned(1)) =>
        /\ redisProducts = <<>>
        /\ \A i \in 1..Len(catalogCalls[1].before) :
              StoredFeatures(redisFeatures, catalogCalls[1].before[i].id) = Null

\* The step is one of call c inside getAllProducts.
GetAllProductsStep(c) ==
    /\ catalogCalls[c].pc \in {"get", "seed", "reget"}
    /\ catalogCalls'[c] # catalogCalls[c]

\* No call other than c has set or deleted the catalog key.
OnlySeeded(c) ==
    \A d \in DOMAIN catalogCalls \ {c} : ~catalogCalls[d].set

C28_BothAddedProductsStored ==
    (/\ Len(catalogCalls) = 2
     /\ \A c \in {1, 2} : catalogCalls[c].method = "addProduct" /\ CatalogReturned(c))
    =>
        /\ \A c \in {1, 2} :
              \E i \in 1..Len(redisProducts) : redisProducts[i] = catalogCalls[c].added
        /\ \A i, j \in 1..Len(redisProducts) :
              redisProducts[i].id = redisProducts[j].id => i = j

====
